---- MODULE Spec2Model ----
(***************************************************************************)
(* GD&T extraction engine of GDNT-TkinterInterfaced                        *)
(* (src/Latestupdatedversion1.0.py, class GDTExtractor).                   *)
(*                                                                         *)
(* A file is a sequence of entity lines.  A line is a record holding the   *)
(* fields the regular expressions of the extractor capture: the entity id, *)
(* the entity keyword, the quoted name, the quoted letter or type string,  *)
(* the entity references and the measure text.  Names, letters and measure *)
(* texts are strings and every substring test, case conversion and regex   *)
(* on them is computed on the characters.                                  *)
(*                                                                         *)
(* Python dicts keep insertion order and the extractor iterates over them, *)
(* so a dict is a sequence of <<key, value>> pairs.  None and '' are both  *)
(* false for every test the code applies to them: both are "".             *)
(***************************************************************************)
EXTENDS Integers, Sequences, FiniteSets, TLC

VARIABLES
  corpus,                    \* the texts the caller may hand to the extractor
  returned,                  \* <<text, rows>> of every call that has returned
  pc,                        \* position inside extract_tolerance_data
  cursor,                    \* next line of the running scan
  text,                      \* argument of the running call (a sequence of lines)
  line_dict,                 \* entity id -> line
  datum_results,             \* datum letter -> location
  datum_letter_to_feature,   \* datum letter -> raw feature name
  tol_results,               \* geometric tolerance tuples
  dimensional_results,       \* rows of extract_dimensional_tolerances
  table_rows,                \* result rows
  origin,                    \* history: the line each row was produced from
  feature_name,              \* argument of a determine_plane_position call
  datum_letter,              \* argument of a determine_plane_position call
  plane_position             \* its result

vars == <<corpus, returned, pc, cursor, text, line_dict, datum_results,
          datum_letter_to_feature, tol_results, dimensional_results,
          table_rows, origin, feature_name, datum_letter, plane_position>>

extractVars == <<corpus, returned, pc, cursor, text, line_dict, datum_results,
                 datum_letter_to_feature, tol_results, dimensional_results,
                 table_rows, origin>>

classifyVars == <<feature_name, datum_letter, plane_position>>

(***************************************************************************)
(* Strings                                                                 *)
(***************************************************************************)
UpperChars == "ABCDEFGHIJKLMNOPQRSTUVWXYZ"
LowerChars == "abcdefghijklmnopqrstuvwxyz"
DigitChars == "0123456789"

Char(s, i) == SubSeq(s, i, i)

\* Python: kw in s
Contains(s, kw) ==
  \E i \in 1..(Len(s) - Len(kw) + 1) : SubSeq(s, i, i + Len(kw) - 1) = kw

\* Python: any(kw in s for kw in kws)
ContainsAny(s, kws) == \E kw \in kws : Contains(s, kw)

IndexIn(alphabet, c) ==
  IF \E k \in 1..Len(alphabet) : Char(alphabet, k) = c
  THEN CHOOSE k \in 1..Len(alphabet) : Char(alphabet, k) = c
  ELSE 0

IsUpper(c) == Len(c) = 1 /\ IndexIn(UpperChars, c) > 0
IsLower(c) == Len(c) = 1 /\ IndexIn(LowerChars, c) > 0
IsDigit(c) == Len(c) = 1 /\ IndexIn(DigitChars, c) > 0
\* regex \w
IsWord(c) == IsUpper(c) \/ IsLower(c) \/ IsDigit(c) \/ c = "_"

LowerChar(c) == IF IsUpper(c) THEN Char(LowerChars, IndexIn(UpperChars, c)) ELSE c
UpperChar(c) == IF IsLower(c) THEN Char(UpperChars, IndexIn(LowerChars, c)) ELSE c

RECURSIVE Lower(_)
\* Python: str.lower()
Lower(s) == IF s = "" THEN "" ELSE LowerChar(Char(s, 1)) \o Lower(SubSeq(s, 2, Len(s)))

RECURSIVE Upper(_)
\* Python: str.upper()
Upper(s) == IF s = "" THEN "" ELSE UpperChar(Char(s, 1)) \o Upper(SubSeq(s, 2, Len(s)))

RECURSIVE DigitsToNat(_)
\* Python: int(digits)
DigitsToNat(s) ==
  IF s = "" THEN 0
  ELSE 10 * DigitsToNat(SubSeq(s, 1, Len(s) - 1)) + (IndexIn(DigitChars, Char(s, Len(s))) - 1)

\* the longest run of characters satisfying Ok that starts at position i
RunEnd(s, i, Ok(_)) ==
  IF \E j \in i..Len(s) : ~Ok(Char(s, j))
  THEN (CHOOSE j \in i..Len(s) : ~Ok(Char(s, j)) /\ \A k \in i..(j - 1) : Ok(Char(s, k))) - 1
  ELSE Len(s)

Min(S) == CHOOSE x \in S : \A y \in S : x <= y

\* regex \(([A-Z])\) searched in s: the letter of the first match, "" if none
ParenUpper(s) ==
  LET hits == {i \in 1..(Len(s) - 2) :
                 Char(s, i) = "(" /\ IsUpper(Char(s, i + 1)) /\ Char(s, i + 2) = ")"}
  IN  IF hits = {} THEN "" ELSE Char(s, Min(hits) + 1)

\* regex plane(\d+) on s: the number of the first match, -1 if none
PlaneNumber(s) ==
  LET hits == {i \in 1..(Len(s) - 5) :
                 SubSeq(s, i, i + 4) = "plane" /\ IsDigit(Char(s, i + 5))}
  IN  IF hits = {} THEN -1
      ELSE LET i == Min(hits)
           IN  DigitsToNat(SubSeq(s, i + 5, RunEnd(s, i + 5, IsDigit)))

(***************************************************************************)
(* determine_plane_position                                                *)
(***************************************************************************)
\* the keyword tier; "" when no keyword is found
PositionKeyword(fname) ==
  IF ContainsAny(fname, {"top", "upper", "above"}) THEN "top face"
  ELSE IF ContainsAny(fname, {"bottom", "lower", "below", "base"}) THEN "bottom face"
  ELSE ""

\* the datum letter tier; "" when the letter has no branch
PositionLetter(fname, letter) ==
  LET datum_upper == Upper(letter)
  IN  IF datum_upper = "A"
      THEN IF ContainsAny(fname, {"top", "upper"}) THEN "top face" ELSE "bottom face"
      ELSE IF datum_upper \in {"B", "C"} THEN "cylindrical side"
      ELSE IF datum_upper = "D" THEN "top face"
      ELSE IF datum_upper \in {"E", "F", "G", "H"}
           THEN IF datum_upper \in {"E", "G"} THEN "top face" ELSE "bottom face"
           ELSE ""

\* the tiers after the if/elif chain: plane(\d+), then "plane", then the name
PositionNumbered(fn, fname) ==
  LET plane_num == PlaneNumber(fname)
  IN  IF plane_num = 1 THEN "bottom face"
      ELSE IF plane_num >= 2 THEN "top face"
      ELSE IF Contains(fname, "plane")
           THEN IF ContainsAny(fname, {"+z", "positive", "high"}) THEN "top face"
                ELSE IF ContainsAny(fname, {"-z", "negative", "low"}) THEN "bottom face"
                ELSE "planar surface"
           ELSE fn

\* the if/elif chain on the datum letter and the literal plane1/plane2 names
PositionChain(fn, fname, letter) ==
  IF letter # ""
  THEN IF PositionLetter(fname, letter) # "" THEN PositionLetter(fname, letter)
       ELSE PositionNumbered(fn, fname)
  ELSE IF Contains(fname, "plane1") THEN "bottom face"
  ELSE IF Contains(fname, "plane2") THEN "top face"
  ELSE PositionNumbered(fn, fname)

\* determine_plane_position with the datum letter consulted before the keywords
LetterBeforeKeyword(fn, letter) ==
  IF fn = "" THEN "surface"
  ELSE LET fname == Lower(fn)
       IN  IF letter # "" /\ PositionLetter(fname, letter) # ""
           THEN PositionLetter(fname, letter)
           ELSE IF PositionKeyword(fname) # "" THEN PositionKeyword(fname)
           ELSE PositionChain(fn, fname, letter)

determine_plane_position(fn, letter) ==
  IF fn = "" THEN "surface"
  ELSE LET fname == Lower(fn)
       IN  IF PositionKeyword(fname) # "" THEN PositionKeyword(fname)
           ELSE PositionChain(fn, fname, letter)

(***************************************************************************)
(* Dicts (insertion ordered) and entity lines                              *)
(***************************************************************************)
DictHas(d, k) == \E i \in DOMAIN d : d[i][1] = k

\* Python: d.get(k, default)
DictGet(d, k, default) ==
  IF DictHas(d, k) THEN d[CHOOSE i \in DOMAIN d : d[i][1] = k][2] ELSE default

\* DictPut that leaves the entry of an existing key as it is
DictPutKeepFirst(d, k, v) == IF DictHas(d, k) THEN d ELSE Append(d, <<k, v>>)

\* Python: d[k] = v (an existing key keeps its position)
DictPut(d, k, v) ==
  IF DictHas(d, k)
  THEN [i \in DOMAIN d |-> IF d[i][1] = k THEN <<k, v>> ELSE d[i]]
  ELSE Append(d, <<k, v>>)

\* Python: list(d.keys())
DictKeys(d) == [i \in DOMAIN d |-> d[i][1]]

\* the first key, in iteration order, whose entry satisfies Ok; "" if none
FirstKey(d, Ok(_, _)) ==
  LET hits == {i \in DOMAIN d : Ok(d[i][1], d[i][2])}
  IN  IF hits = {} THEN "" ELSE d[Min(hits)][1]

\* #id=KIND('name',...,#refs[1],...,'arg'); the fields of one entity line.
\* form "std" is the layout of the exporter; form "short" ends the line with
\* its reference: #id=KIND('name',$,#refs[1]);
Line(id, kind, name, arg, refs, form) ==
  [id |-> id, kind |-> kind, name |-> name, arg |-> arg, refs |-> refs, form |-> form]

NoLine == Line(0, "", "", "", <<>>, "std")

\* spellings of a line: "spaced" writes blanks around the '=' (#id = KIND(...);),
\* "lower" writes the keyword in lower case (#id=kind(...);), "bare" leaves
\* the trailing semicolon out (#id=KIND(...)); each in the exporter's layout
\* ("spaced", "lower", "bare") or in the short one ("short spaced", ...)
Short(l) == l.form \in {"short", "short spaced", "short lower", "short bare"}

Spaced(l) == l.form \in {"spaced", "short spaced"}

LowerCase(l) == l.form \in {"lower", "short lower"}

Bare(l) == l.form \in {"bare", "short bare"}

\* the entity ids written on the line, in the order they are written
IdsOf(l) == IF l.id = 0 THEN <<>> ELSE <<l.id>> \o l.refs

RECURSIVE DecPrefix(_, _)
\* the decimal digits of n are a prefix of those of m
DecPrefix(n, m) == n = m \/ (m >= 10 /\ DecPrefix(n, m \div 10))

\* Python: f"#{n}" in line
Mentions(l, n) == \E k \in DOMAIN IdsOf(l) : DecPrefix(n, IdsOf(l)[k])

\* extract_tolerance_data: line_dict, the entity index (a later line with the
\* same id replaces the earlier one)
RECURSIVE BuildIndex(_)
BuildIndex(lines) ==
  IF lines = <<>> THEN <<>>
  ELSE LET l == lines[Len(lines)]
           rest == BuildIndex(SubSeq(lines, 1, Len(lines) - 1))
       IN  IF l.id = 0 THEN rest ELSE DictPut(rest, l.id, l)

\* the position of the first line at or after i that satisfies Ok; 0 if none
NextMatch(lines, i, Ok(_)) ==
  LET hits == {j \in i..Len(lines) : Ok(lines[j])}
  IN  IF hits = {} THEN 0 ELSE Min(hits)

(***************************************************************************)
(* Datum scan and shape-aspect scan                                        *)
(***************************************************************************)
\* re.match(r"#(\d+)=DATUM\('([^']*)',\$,#\d+,\.F\.,'([A-Z])'\);", line): no
\* blank around the '=', the keyword in upper case, the semicolon required
IsDatumLine(l) ==
  /\ l.kind = "DATUM"
  /\ ~Short(l) /\ ~Spaced(l) /\ ~LowerCase(l) /\ ~Bare(l)
  /\ Len(l.refs) = 1
  /\ IsUpper(l.arg)

NotParen(c) == c # "("

\* re.search(r'@([^(]+)', name): group 1, "" if there is no match
AtToken(name) ==
  LET hits == {i \in 1..(Len(name) - 1) : Char(name, i) = "@" /\ Char(name, i + 1) # "("}
  IN  IF hits = {} THEN ""
      ELSE LET i == Min(hits) IN SubSeq(name, i + 1, RunEnd(name, i + 1, NotParen))

\* DatumLocation classifying the whole name instead of the token after "@"
DatumLocationWholeName(name, letter) ==
  IF Contains(Lower(name), "boss") THEN "cylindrical side"
  ELSE IF Contains(Lower(name), "plane") THEN determine_plane_position(name, letter)
  ELSE Lower(name)

\* the location the datum scan records for one DATUM line
DatumLocation(name, letter) ==
  IF AtToken(name) # ""
  THEN LET geometric_feature == Lower(AtToken(name))
       IN  IF Contains(geometric_feature, "boss") THEN "cylindrical side"
           ELSE IF Contains(geometric_feature, "plane1") THEN "bottom face"
           ELSE IF Contains(geometric_feature, "plane2") THEN "top face"
           ELSE IF Contains(geometric_feature, "plane")
                THEN determine_plane_position(geometric_feature, letter)
                ELSE geometric_feature
  ELSE determine_plane_position(name, letter)

\* shape_aspect_pattern on one line:
\*   #\d+\s*=\s*SHAPE_ASPECT\('([^']*?)\((\w)?'?,.*?#(\d+)\)
\* The name must hold a "(" followed by at most one word character and then
\* by "'," or ","; the line must hold a reference directly before a ")".
ShapeParen(name) ==
  LET n == Len(name)
      ok(p) == /\ Char(name, p) = "("
               /\ \/ p = n
                  \/ p = n - 1 /\ IsWord(Char(name, n))
                  \/ p < n /\ Char(name, p + 1) = ","
                  \/ p < n - 1 /\ IsWord(Char(name, p + 1)) /\ Char(name, p + 2) = ","
      hits == {p \in 1..n : ok(p)}
  IN  IF hits = {} THEN 0 ELSE Min(hits)

\* shape_aspect_pattern has \s*=\s* and no flag: blanks and a missing
\* semicolon are accepted, a lower-case keyword is not
IsShapeAspectLine(l) ==
  /\ l.kind = "SHAPE_ASPECT"
  /\ Short(l) /\ ~LowerCase(l)
  /\ Len(l.refs) >= 1
  /\ ShapeParen(l.name) > 0

\* groups 1 and 2 of shape_aspect_pattern
ShapeName(l) == SubSeq(l.name, 1, ShapeParen(l.name) - 1)

ShapeLetter(l) ==
  LET p == ShapeParen(l.name)
  IN  IF p < Len(l.name) /\ IsWord(Char(l.name, p + 1)) THEN Char(l.name, p + 1) ELSE ""

\* the location the shape-aspect scan derives from the name
ShapeLocation(name) ==
  LET shape_name == Lower(name)
  IN  IF Contains(shape_name, "plane1") THEN "Plane1"
      ELSE IF Contains(shape_name, "plane2") THEN "Plane2"
      ELSE IF Contains(shape_name, "boss1") THEN "Boss1"
      ELSE IF Contains(shape_name, "torus") THEN "torus side"
      ELSE IF Contains(shape_name, "top") THEN "top face"
      ELSE IF Contains(shape_name, "bottom") THEN "bottom face"
      ELSE IF Contains(shape_name, "cylindrical") \/ Contains(shape_name, "side")
           THEN "cylindrical side"
           ELSE ""

(***************************************************************************)
(* Geometric tolerance extractor                                           *)
(***************************************************************************)
TolKinds == {"CYLINDRICITY_TOLERANCE", "FLATNESS_TOLERANCE",
             "STRAIGHTNESS_TOLERANCE", "ROUNDNESS_TOLERANCE"}

\* tol_pattern:
\*   (#\d+)\s*=\s*(CYLINDRICITY|FLATNESS|STRAIGHTNESS|ROUNDNESS)_TOLERANCE
\*   \(\s*'([^']*)'\s*,\s*''\s*,\s*(#\d+)
\* with re.IGNORECASE: every spelling is accepted
IsTolLine(l) == l.kind \in TolKinds /\ ~Short(l) /\ Len(l.refs) >= 1

\* group 2 of tol_pattern, in the case the line writes it
TolType(l) ==
  LET type == SubSeq(l.kind, 1, Len(l.kind) - Len("_TOLERANCE"))
  IN  IF LowerCase(l) THEN Lower(type) ELSE type

\* Python: str.capitalize()
Capitalize(s) == IF s = "" THEN "" ELSE UpperChar(Char(s, 1)) \o Lower(SubSeq(s, 2, Len(s)))

TolLabel(l) == IF Upper(TolType(l)) = "ROUNDNESS" THEN "Circularity" ELSE Capitalize(TolType(l))

IsNumChar(c) == IsDigit(c) \/ c = "."

\* the kinds of line whose text holds LENGTH_MEASURE(arg)
MeasureKinds == {"LENGTH_MEASURE_WITH_UNIT", "MEASURE_REPRESENTATION_ITEM"}

\* re.search(r"(?:LENGTH_MEASURE|VALUE_REPRESENTATION_ITEM)\s*\(\s*([\d.]+)", definition)
TolValue(definition) ==
  IF definition.kind \in MeasureKinds /\ definition.arg # "" /\ IsNumChar(Char(definition.arg, 1))
  THEN SubSeq(definition.arg, 1, RunEnd(definition.arg, 1, IsNumChar))
  ELSE "N/A"

\* re.search(r"DATUM_FEATURE\([^']*'[^']*\(([A-Z])\)'", line): group 1, "" if none
FeatureLetter(l) ==
  LET n == Len(l.name)
  IN  IF /\ l.kind = "DATUM_FEATURE" /\ ~LowerCase(l)
         /\ n >= 3
         /\ Char(l.name, n - 2) = "(" /\ IsUpper(Char(l.name, n - 1)) /\ Char(l.name, n) = ")"
      THEN Char(l.name, n - 1)
      ELSE ""

\* Method 3: the letter of the first DATUM_FEATURE line that mentions an
\* entity id written on the tolerance's own line
FeatureDatum(tol_line, lines) ==
  LET entity_refs == IdsOf(tol_line)
      found(k) == NextMatch(lines, 1, LAMBDA l : /\ l.kind = "DATUM_FEATURE"
                                                 /\ Mentions(l, entity_refs[k])
                                                 /\ FeatureLetter(l) # "")
      hits == {k \in DOMAIN entity_refs : found(k) > 0}
  IN  IF hits = {} THEN "" ELSE FeatureLetter(lines[found(Min(hits))])

PlanarLocations == {"bottom face", "top face", "planar surface"}

\* Methods 1 to 5 of the datum/location chain of one tolerance
EarlierTiers(l, lines, index, dr, dlf) ==
  LET tol_name == l.name
      tol_name_lower == Lower(tol_name)
      \* Method 1
      d1 == ParenUpper(tol_name)
      l1 == IF d1 # "" THEN DictGet(dr, d1, "") ELSE ""
      \* Method 2
      k2 == FirstKey(dr, LAMBDA k, v : \/ Contains(tol_name_lower, "(" \o Lower(k) \o ")")
                                       \/ Contains(tol_name, "(" \o Upper(k) \o ")"))
      d2 == IF d1 = "" /\ k2 # "" THEN k2 ELSE d1
      l2 == IF d1 = "" /\ k2 # "" THEN DictGet(dr, k2, "") ELSE l1
      \* Method 3
      k3 == FeatureDatum(DictGet(index, l.id, NoLine), lines)
      d3 == IF d2 = "" /\ k3 # "" THEN k3 ELSE d2
      l3 == IF d2 = "" /\ k3 # "" THEN DictGet(dr, k3, "") ELSE l2
      \* Method 4
      byFeature(kw) == FirstKey(dlf, LAMBDA k, v : Contains(Lower(v), kw))
      kw4 == IF Contains(tol_name_lower, "boss") THEN "boss"
             ELSE IF Contains(tol_name_lower, "plane1") THEN "plane1"
             ELSE IF Contains(tol_name_lower, "plane2") THEN "plane2"
             ELSE IF Contains(tol_name_lower, "plane") THEN "plane"
             ELSE ""
      l4 == IF l3 # "" THEN l3
            ELSE IF kw4 = "boss" THEN "cylindrical side"
            ELSE IF kw4 = "plane1" THEN "bottom face"
            ELSE IF kw4 = "plane2" THEN "top face"
            ELSE IF kw4 = "plane" THEN "planar surface"
            ELSE ""
      d4 == IF l3 = "" /\ d3 = "" /\ kw4 \in {"boss", "plane1", "plane2"}
            THEN byFeature(kw4) ELSE d3
      \* Method 5
      k5 == FirstKey(dr, LAMBDA k, v : \/ l4 = "cylindrical side" /\ v = "cylindrical side"
                                       \/ l4 \in PlanarLocations /\ v \in PlanarLocations)
      d5 == IF d4 = "" /\ l4 # "" /\ k5 # "" THEN k5 ELSE d4
  IN  [datum |-> d5, loc |-> l4]

\* Method 6, the straightness branch: the index into the known datum letters
StraightnessIndex(current_count, n) ==
  IF current_count < n THEN (current_count % n) + 1 ELSE 1

\* Method 6: taken when Methods 1 to 5 left the location empty
TypeFallback(label, pre, dr, current_count) ==
  IF pre.loc # "" THEN pre
  ELSE IF Lower(label) \in {"cylindricity", "circularity"}
       THEN LET k == FirstKey(dr, LAMBDA d, v : v = "cylindrical side")
            IN  [datum |-> IF k # "" THEN k ELSE pre.datum, loc |-> "cylindrical side"]
  ELSE IF Lower(label) = "flatness"
       THEN LET k == FirstKey(dr, LAMBDA d, v : Contains(v, "face"))
            IN  IF k # "" THEN [datum |-> k, loc |-> DictGet(dr, k, "")]
                ELSE [datum |-> pre.datum, loc |-> "planar surface"]
  ELSE IF Lower(label) = "straightness" /\ Len(dr) > 0
       THEN LET available_datums == DictKeys(dr)
                k == available_datums[StraightnessIndex(current_count, Len(available_datums))]
            IN  [datum |-> k, loc |-> DictGet(dr, k, "")]
  ELSE pre

\* the tuple appended to tol_results for one tolerance line
ToleranceTuple(l, lines, index, dr, dlf, current_count) ==
  LET label == TolLabel(l)
      value == TolValue(DictGet(index, l.refs[1], NoLine))
      r == TypeFallback(label, EarlierTiers(l, lines, index, dr, dlf), dr, current_count)
  IN  <<label, value, r.datum, r.loc, "", "", "">>

(***************************************************************************)
(* Numbers.  A float is held in thousandths: measure texts carry at most   *)
(* three decimals and every output is formatted with three decimals.       *)
(***************************************************************************)
NoNumber == [ok |-> FALSE, v |-> 0]

Number(v) == [ok |-> TRUE, v |-> v]

\* Python: float(s) for a text [+-]digits[.digits]; ValueError gives NoNumber
ParseFloat(s) ==
  LET signed == s # "" /\ Char(s, 1) \in {"-", "+"}
      body == IF signed THEN SubSeq(s, 2, Len(s)) ELSE s
      e == RunEnd(body, 1, IsDigit)
      int == SubSeq(body, 1, e)
      dotted == e < Len(body) /\ Char(body, e + 1) = "."
      frac == IF dotted THEN SubSeq(body, e + 2, Len(body)) ELSE ""
      wellFormed == /\ \A k \in 1..Len(frac) : IsDigit(Char(frac, k))
                    /\ (dotted \/ e = Len(body))
                    /\ Len(int) + Len(frac) > 0
      frac3 == SubSeq(frac \o "000", 1, 3)
      magnitude == 1000 * DigitsToNat(int) + DigitsToNat(frac3)
  IN  IF ~wellFormed THEN NoNumber
      ELSE Number(IF signed /\ Char(s, 1) = "-" THEN 0 - magnitude ELSE magnitude)

Abs(x) == IF x < 0 THEN 0 - x ELSE x

Pad3(n) == IF n < 10 THEN "00" \o ToString(n) ELSE IF n < 100 THEN "0" \o ToString(n) ELSE ToString(n)

\* Python: f"{x:.3f}"
Fixed3(v) ==
  (IF v < 0 THEN "-" ELSE "") \o ToString(Abs(v) \div 1000) \o "." \o Pad3(Abs(v) % 1000)

\* Python: str(x) of a float: the shortest decimal, at least one decimal digit
FloatStr(v) ==
  LET f == Abs(v) % 1000
      decimals == IF f = 0 THEN "0"
                  ELSE IF f % 100 = 0 THEN ToString(f \div 100)
                  ELSE IF f % 10 = 0 THEN SubSeq(Pad3(f), 1, 2)
                  ELSE Pad3(f)
  IN  (IF v < 0 THEN "-" ELSE "") \o ToString(Abs(v) \div 1000) \o "." \o decimals

\* the position of the last line that satisfies Ok; 0 if none
LastMatch(lines, Ok(_)) ==
  LET hits == {j \in 1..Len(lines) : Ok(lines[j])}
  IN  IF hits = {} THEN 0 ELSE CHOOSE j \in hits : \A k \in hits : k <= j

(***************************************************************************)
(* Dimensional tolerance extractor: the link tables                        *)
(***************************************************************************)
\* length_measures.get(ref): (#\d+)\s*=.*?LENGTH_MEASURE\(([^)]+)\), float(group 2)
length_measures(lines, ref) ==
  LET j == LastMatch(lines, LAMBDA l : /\ l.kind \in MeasureKinds /\ l.id = ref
                                       /\ ParseFloat(l.arg).ok)
  IN  IF j = 0 THEN NoNumber ELSE ParseFloat(lines[j].arg)

\* nominal_values.get(ref): POSITIVE_LENGTH_MEASURE\(([^)]+)\) on a line #id=...
nominal_values(lines, ref) ==
  LET j == LastMatch(lines, LAMBDA l : /\ l.kind = "MEASURE_REPRESENTATION_ITEM" /\ l.id = ref
                                       /\ ParseFloat(l.arg).ok)
  IN  IF j = 0 THEN NoNumber ELSE ParseFloat(lines[j].arg)

\* (#\d+)\s*=\s*TOLERANCE_VALUE\s*\(\s*(#\d+)\s*,\s*(#\d+)\s*\)
IsToleranceValueLine(l) == l.kind = "TOLERANCE_VALUE" /\ Len(l.refs) = 2

\* tolerance_values.get(ref): lower, upper and range of the last matching line
tolerance_values(lines, ref) ==
  LET j == LastMatch(lines, LAMBDA l : IsToleranceValueLine(l) /\ l.id = ref)
      lo == length_measures(lines, lines[j].refs[1])
      up == length_measures(lines, lines[j].refs[2])
      lower_value == IF lo.ok THEN lo.v ELSE 0
      upper_value == IF up.ok THEN up.v ELSE 0
  IN  IF j = 0 THEN [ok |-> FALSE, lower |-> 0, upper |-> 0, range |-> 0]
      ELSE [ok |-> TRUE, lower |-> lower_value, upper |-> upper_value,
            range |-> Abs(upper_value - lower_value)]

\* (#\d+)\s*=\s*PLUS_MINUS_TOLERANCE\s*\(\s*(#\d+)\s*,\s*(#\d+)\s*\)
IsPlusMinusLine(l) == l.kind = "PLUS_MINUS_TOLERANCE" /\ Len(l.refs) = 2

\* dimension_to_tolerance.get(dim)['tolerance_id']; 0 if the dimension has no entry
dimension_to_tolerance(lines, dim) ==
  LET j == LastMatch(lines, LAMBDA l : IsPlusMinusLine(l) /\ l.refs[2] = dim)
  IN  IF j = 0 THEN 0 ELSE lines[j].refs[1]

\* re.search(r"SHAPE_ASPECT\s*\(\s*'([^']*)'", line): group 1, "" if none
AspectName(l) == IF l.kind = "SHAPE_ASPECT" /\ ~LowerCase(l) THEN l.name ELSE ""

\* re.search(r"#(\d+)\)", line): the reference written directly before a ")"
ClosingRef(l) ==
  IF /\ Len(l.refs) > 0
     /\ \/ l.kind \in {"DIMENSIONAL_CHARACTERISTIC_REPRESENTATION", "PLUS_MINUS_TOLERANCE",
                       "TOLERANCE_VALUE", "DIMENSIONAL_LOCATION"}
        \/ Short(l)
  THEN l.refs[Len(l.refs)]
  ELSE IF l.kind = "SHAPE_DIMENSION_REPRESENTATION" /\ Len(l.refs) > 0 THEN l.refs[1]
  ELSE 0

\* re.search(r"\(#(\d+)\)", line): the reference written between parentheses
ParenRef(l) ==
  IF l.kind = "SHAPE_DIMENSION_REPRESENTATION" /\ Len(l.refs) > 0 THEN l.refs[1] ELSE 0

\* the nominal value of dimension dim: the last line that mentions dim and is a
\* DIMENSIONAL_CHARACTERISTIC_REPRESENTATION whose representation holds a
\* parenthesised reference decides it
NominalOf(lines, index, dim) ==
  LET j == LastMatch(lines, LAMBDA l :
             /\ l.kind = "DIMENSIONAL_CHARACTERISTIC_REPRESENTATION" /\ ~LowerCase(l)
             /\ Mentions(l, dim)
             /\ ClosingRef(l) # 0
             /\ ParenRef(DictGet(index, ClosingRef(l), NoLine)) # 0)
  IN  IF j = 0 THEN NoNumber
      ELSE nominal_values(lines, ParenRef(DictGet(index, ClosingRef(lines[j]), NoLine)))

\* Python truth of the nominal: '' and 0.0 are false
Truthy(x) == x.ok /\ x.v # 0

\* the two characters written before the range in the f-string of lines 419
\* and 499, a not sign and a plus-minus sign: "~" stands for the first, "+/-"
\* for the second
PlusMinusLiteral == "~+/-"

\* tolerance_range, upper_limit, lower_limit of one dimension; the range is
\* halved exactly when it is an even number of thousandths, which the
\* measure texts of one decimal always give
Limits(lines, dim, nominal) ==
  LET tol_val_id == dimension_to_tolerance(lines, dim)
      tol_data == tolerance_values(lines, tol_val_id)
  IN  IF tol_val_id = 0 \/ ~tol_data.ok THEN <<"", "", "">>
      ELSE <<PlusMinusLiteral \o Fixed3(tol_data.range \div 2),
             IF Truthy(nominal) THEN Fixed3(nominal.v + tol_data.upper) ELSE "",
             IF Truthy(nominal) THEN Fixed3(nominal.v + tol_data.lower) ELSE "">>

(***************************************************************************)
(* find_datum_for_dimensional_tolerance                                    *)
(***************************************************************************)
\* code point order of the characters a datum key can be
KeyOrder == DigitChars \o UpperChars \o "_" \o LowerChars

\* Python: sorted(d.keys())
SortedKeys(d) ==
  LET keys == DictKeys(d)
      rank(k) == IndexIn(KeyOrder, k)
      place(i) == 1 + Cardinality({j \in DOMAIN keys : rank(keys[j]) < rank(keys[i])})
  IN  [p \in DOMAIN keys |-> keys[CHOOSE i \in DOMAIN keys : place(i) = p]]

\* re.search(r'datum\d+@[^(]*\(([A-Z])\)', s): group 1, "" if none
DatumRefLetter(s) ==
  LET letterAt(i) ==
        LET e == RunEnd(s, i + 5, IsDigit)
            q == RunEnd(s, e + 2, NotParen)
        IN  IF /\ SubSeq(s, i, i + 4) = "datum"
               /\ e >= i + 5
               /\ e + 1 <= Len(s) /\ Char(s, e + 1) = "@"
               /\ q + 3 <= Len(s)
               /\ Char(s, q + 1) = "(" /\ IsUpper(Char(s, q + 2)) /\ Char(s, q + 3) = ")"
            THEN Char(s, q + 2)
            ELSE ""
      hits == {i \in 1..(Len(s) - 4) : letterAt(i) # ""}
  IN  IF hits = {} THEN "" ELSE letterAt(Min(hits))

IndexError == "IndexError"

Cylindrical(k, v) == Contains(Lower(v), "cylindrical")

FaceLike(k, v) == ContainsAny(Lower(v), {"face", "plane"})

\* the datum letter for one feature name; IndexError when the code raises it
find_datum_for_dimensional_tolerance(fn, dr, dlf) ==
  IF fn = "" THEN ""
  ELSE
  LET fname == Lower(fn)
      paren == ParenUpper(fname)
      first == IF Len(dr) > 0 THEN dr[1][1] ELSE ""
      plane_num == PlaneNumber(fname)
      datum_letters == SortedKeys(dr)
      \* Method 4
      similar == FirstKey(dlf, LAMBDA k, v :
                   LET f == Lower(v)
                   IN  \/ Contains(fname, "boss") /\ Contains(f, "boss")
                       \/ Contains(fname, "plane1") /\ Contains(f, "plane1")
                       \/ Contains(fname, "plane2") /\ Contains(f, "plane2")
                       \/ Contains(fname, "plane") /\ Contains(f, "plane"))
      \* Method 5
      default ==
        IF Len(dr) = 0 THEN ""
        ELSE IF ContainsAny(fname, {"boss", "cylinder", "diameter"})
             THEN IF DictHas(dr, "A") THEN "A"
                  ELSE IF FirstKey(dr, Cylindrical) # "" THEN FirstKey(dr, Cylindrical)
                  ELSE first
        ELSE IF ContainsAny(fname, {"plane", "length", "distance"})
             THEN IF DictHas(dr, "A") THEN "A"
                  ELSE IF FirstKey(dr, FaceLike) # "" THEN FirstKey(dr, FaceLike)
                  ELSE first
        ELSE first
      later == IF similar # "" THEN similar ELSE default
  IN  \* Method 1
      IF DatumRefLetter(fname) # "" THEN DatumRefLetter(fname)
      \* Method 2
      ELSE IF paren # "" /\ DictHas(dr, paren) THEN paren
      \* Method 3
      ELSE IF Contains(fname, "boss") \/ Contains(fname, "cylinder")
           THEN IF FirstKey(dr, Cylindrical) # "" THEN FirstKey(dr, Cylindrical)
                ELSE IF Len(dr) > 0 THEN first
                ELSE later
      ELSE IF Contains(fname, "plane")
           THEN IF plane_num >= 0 /\ plane_num <= Len(datum_letters)
                THEN IF plane_num > 0 THEN datum_letters[plane_num]
                     ELSE IF Len(datum_letters) > 0 THEN datum_letters[Len(datum_letters)]
                     ELSE IndexError
                ELSE IF FirstKey(dr, FaceLike) # "" THEN FirstKey(dr, FaceLike)
                ELSE later
      ELSE later

(***************************************************************************)
(* Rows                                                                    *)
(***************************************************************************)
\* self.gdnt_symbols; the glyphs are written in ASCII
gdnt_symbols(label) ==
  CASE label = "Straightness" -> "--"
    [] label = "Flatness" -> "[]"
    [] label = "Circularity" -> "()"
    [] label = "Cylindricity" -> "(/)"
    [] label = "Diameter" -> "(/)"
    [] label = "Length" -> "<->"
    [] label = "Linear Distance" -> "<->"
    [] OTHER -> ""

IsLetter(c) == IsUpper(c) \/ IsLower(c)

RECURSIVE TitleFrom(_, _)
TitleFrom(s, prevCased) ==
  IF s = "" THEN ""
  ELSE LET c == Char(s, 1)
       IN  (IF prevCased THEN LowerChar(c) ELSE UpperChar(c))
           \o TitleFrom(SubSeq(s, 2, Len(s)), IsLetter(c))

\* Python: str.title()
Title(s) == TitleFrom(s, FALSE)

\* SizeRow labelled with the declared type, as the row of a location is
SizeRowDeclaredType(l, lines, index, dr, dlf) ==
  LET fn == AspectName(DictGet(index, l.refs[1], NoLine))
      diameter_value == NominalOf(lines, index, l.id)
      lim == Limits(lines, l.id, diameter_value)
      datum == find_datum_for_dimensional_tolerance(fn, dr, dlf)
      boss == Contains(Lower(fn), "boss")
  IN  IF datum = IndexError THEN IndexError
      ELSE <<gdnt_symbols("Diameter") \o " " \o Title(l.arg),
             IF Truthy(diameter_value) THEN FloatStr(diameter_value.v) ELSE "N/A",
             datum,
             IF boss THEN "cylindrical side" ELSE "cylindrical surface",
             "curved side of the cylinder",
             lim[1], lim[2], lim[3]>>

\* extract_dimensional_tolerances: the row of one DIMENSIONAL_SIZE line;
\* IndexError when datum matching raises
SizeRow(l, lines, index, dr, dlf) ==
  LET fn == AspectName(DictGet(index, l.refs[1], NoLine))
      diameter_value == NominalOf(lines, index, l.id)
      lim == Limits(lines, l.id, diameter_value)
      datum == find_datum_for_dimensional_tolerance(fn, dr, dlf)
      boss == Contains(Lower(fn), "boss")
  IN  IF datum = IndexError THEN IndexError
      ELSE <<gdnt_symbols("Diameter") \o " Diameter",
             IF Truthy(diameter_value) THEN FloatStr(diameter_value.v) ELSE "N/A",
             datum,
             IF boss THEN "cylindrical side" ELSE "cylindrical surface",
             "curved side of the cylinder",
             lim[1], lim[2], lim[3]>>

\* LocationRow asking the second feature name before the first
LocationRowSecondFirst(l, lines, index, dr, dlf) ==
  LET fn1 == AspectName(DictGet(index, l.refs[1], NoLine))
      fn2 == AspectName(DictGet(index, l.refs[2], NoLine))
      combined_feature_name == fn1 \o " to " \o fn2
      distance_value == NominalOf(lines, index, l.id)
      lim == Limits(lines, l.id, distance_value)
      r2 == IF fn2 # "" THEN find_datum_for_dimensional_tolerance(fn2, dr, dlf) ELSE ""
      r1 == IF r2 = "" /\ fn1 # "" THEN find_datum_for_dimensional_tolerance(fn1, dr, dlf) ELSE r2
      datum == IF r1 = "" THEN find_datum_for_dimensional_tolerance(combined_feature_name, dr, dlf)
               ELSE r1
      planes == /\ fn1 # "" /\ fn2 # ""
                /\ Contains(Lower(fn1), "plane") /\ Contains(Lower(fn2), "plane")
      symbol == gdnt_symbols("Linear Distance")
  IN  IF datum = IndexError THEN IndexError
      ELSE <<IF l.arg # "" THEN symbol \o " " \o Title(l.arg) ELSE symbol \o " Length",
             IF Truthy(distance_value) THEN FloatStr(distance_value.v) ELSE "N/A",
             datum,
             IF planes THEN "between planes" ELSE "between surfaces",
             IF planes THEN "planar faces" ELSE "linear distance",
             lim[1], lim[2], lim[3]>>

\* extract_dimensional_tolerances: the row of one DIMENSIONAL_LOCATION line
LocationRow(l, lines, index, dr, dlf) ==
  LET fn1 == AspectName(DictGet(index, l.refs[1], NoLine))
      fn2 == AspectName(DictGet(index, l.refs[2], NoLine))
      combined_feature_name == fn1 \o " to " \o fn2
      distance_value == NominalOf(lines, index, l.id)
      lim == Limits(lines, l.id, distance_value)
      r1 == IF fn1 # "" THEN find_datum_for_dimensional_tolerance(fn1, dr, dlf) ELSE ""
      r2 == IF r1 = "" /\ fn2 # "" THEN find_datum_for_dimensional_tolerance(fn2, dr, dlf) ELSE r1
      datum == IF r2 = "" THEN find_datum_for_dimensional_tolerance(combined_feature_name, dr, dlf)
               ELSE r2
      planes == /\ fn1 # "" /\ fn2 # ""
                /\ Contains(Lower(fn1), "plane") /\ Contains(Lower(fn2), "plane")
      symbol == gdnt_symbols("Linear Distance")
  IN  IF datum = IndexError THEN IndexError
      ELSE <<IF l.arg # "" THEN symbol \o " " \o Title(l.arg) ELSE symbol \o " Length",
             IF Truthy(distance_value) THEN FloatStr(distance_value.v) ELSE "N/A",
             datum,
             IF planes THEN "between planes" ELSE "between surfaces",
             IF planes THEN "planar faces" ELSE "linear distance",
             lim[1], lim[2], lim[3]>>

\* GeometricRow with the "at datum X" location of the other variants
GeometricRowAtDatum(t) ==
  LET label == t[1]
      loc == t[4]
      symbol == gdnt_symbols(label)
      surface == IF loc = "cylindrical side" THEN "curved side of the cylinder"
                 ELSE IF loc = "planar surface" THEN "planar face"
                 ELSE IF loc # "" THEN loc ELSE "surface"
  IN  <<IF symbol # "" THEN symbol \o " " \o label ELSE label,
        t[2], t[3],
        IF t[3] # "" THEN "at datum " \o t[3] ELSE IF loc # "" THEN loc ELSE "surface",
        surface, t[5], t[6], t[7]>>

\* extract_tolerance_data: the result row of one tolerance tuple
GeometricRow(t) ==
  LET label == t[1]
      loc == t[4]
      symbol == gdnt_symbols(label)
      surface == IF loc = "cylindrical side" THEN "curved side of the cylinder"
                 ELSE IF loc = "bottom face" THEN "bottom face"
                 ELSE IF loc = "top face" THEN "top face"
                 ELSE IF loc = "planar surface" THEN "planar face"
                 ELSE IF loc # "" THEN loc ELSE "surface"
  IN  <<IF symbol # "" THEN symbol \o " " \o label ELSE label,
        t[2], t[3], IF loc # "" THEN loc ELSE "surface", surface, t[5], t[6], t[7]>>

\* DatumRow with the reference marks of calculate_tolerance_limits
DatumRowRef(d_letter, dr) ==
  LET location_str == DictGet(dr, d_letter, "surface")
  IN  <<"Datum", d_letter, d_letter, location_str, location_str, "", "REF", "REF">>

\* extract_tolerance_data: the result row of one datum letter
DatumRow(d_letter, dr) ==
  LET location_str == DictGet(dr, d_letter, "surface")
  IN  <<"Datum", d_letter, d_letter, location_str, location_str, "", "", "">>

(***************************************************************************)
(* extract_tolerance_data, one step per matched entity                     *)
(***************************************************************************)
\* Python None handed to an entry point where the text is expected
NoneArgument == <<Line(0, "NoneType", "", "", <<>>, "std")>>

IsText(t) == t # NoneArgument

NoOrigin == [datum |-> <<>>, tol |-> <<>>, dim |-> <<>>, rows |-> <<>>]

\* Call with the datum maps of the previous call left in place
CallKeepingDatums(t) ==
  /\ pc = "idle"
  /\ text' = t
  /\ line_dict' = BuildIndex(t)
  /\ tol_results' = <<>>
  /\ dimensional_results' = <<>>
  /\ table_rows' = <<>>
  /\ origin' = NoOrigin
  /\ cursor' = 1
  /\ pc' = "datum"
  /\ UNCHANGED <<corpus, returned, datum_results, datum_letter_to_feature>>

\* entry: the entity index is built and the working state starts empty;
\* text.splitlines() raises on an argument that is not a text, inside the try
\* whose handler returns []
Call(t) ==
  /\ pc = "idle"
  /\ text' = t
  /\ line_dict' = IF IsText(t) THEN BuildIndex(t) ELSE <<>>
  /\ tol_results' = <<>>
  /\ datum_results' = <<>>
  /\ datum_letter_to_feature' = <<>>
  /\ dimensional_results' = <<>>
  /\ table_rows' = <<>>
  /\ origin' = NoOrigin
  /\ cursor' = 1
  /\ pc' = IF IsText(t) THEN "datum" ELSE "done"
  /\ UNCHANGED <<corpus, returned>>

\* upload_and_process: the caller hands one of its texts to the extractor
Upload ==
  /\ \E t \in corpus : Call(t)
  /\ UNCHANGED classifyVars

\* the loop over the DATUM lines
ScanDatum ==
  /\ pc = "datum"
  /\ LET j == NextMatch(text, cursor, IsDatumLine)
     IN  IF j = 0
         THEN /\ pc' = "shape"
              /\ cursor' = 1
              /\ UNCHANGED <<datum_results, datum_letter_to_feature, origin>>
         ELSE LET l == text[j]
                  location == DatumLocation(l.name, l.arg)
              IN  /\ datum_letter_to_feature' = DictPut(datum_letter_to_feature, l.arg, l.name)
                  /\ datum_results' = DictPut(datum_results, l.arg, location)
                  /\ origin' = [origin EXCEPT !.datum = Append(@, <<j, l.arg, location>>)]
                  /\ cursor' = j + 1
                  /\ pc' = pc
  /\ UNCHANGED <<corpus, returned, text, line_dict, tol_results, dimensional_results, table_rows>>
  /\ UNCHANGED classifyVars

\* the loop over the matches of shape_aspect_pattern
ScanShapeAspect ==
  /\ pc = "shape"
  /\ LET j == NextMatch(text, cursor, IsShapeAspectLine)
     IN  IF j = 0
         THEN /\ pc' = "tol"
              /\ cursor' = 1
              /\ UNCHANGED datum_results
         ELSE LET l == text[j]
              IN  /\ datum_results' =
                       IF ShapeLetter(l) # ""
                       THEN DictPut(datum_results, ShapeLetter(l), ShapeLocation(ShapeName(l)))
                       ELSE datum_results
                  /\ cursor' = j + 1
                  /\ pc' = pc
  /\ UNCHANGED <<corpus, returned, text, line_dict, datum_letter_to_feature, tol_results,
                 dimensional_results, table_rows, origin>>
  /\ UNCHANGED classifyVars

\* AddRow putting the new row first
AddRowFirst(rows, row) == <<row>> \o rows

\* Python: list.append(row)
AddRow(rows, row) == Append(rows, row)

\* the loop over the matches of tol_pattern
ScanTolerance ==
  /\ pc = "tol"
  /\ LET j == NextMatch(text, cursor, IsTolLine)
     IN  IF j = 0
         THEN /\ pc' = "size"
              /\ cursor' = 1
              /\ UNCHANGED <<tol_results, origin>>
         ELSE /\ tol_results' = AddRow(tol_results,
                   ToleranceTuple(text[j], text, line_dict, datum_results,
                                  datum_letter_to_feature, Len(tol_results)))
              /\ origin' = [origin EXCEPT !.tol = AddRow(@, j)]
              /\ cursor' = j + 1
              /\ pc' = pc
  /\ UNCHANGED <<corpus, returned, text, line_dict, datum_results, datum_letter_to_feature,
                 dimensional_results, table_rows>>
  /\ UNCHANGED classifyVars

\* (#\d+)\s*=\s*DIMENSIONAL_SIZE\s*\(\s*(#\d+)\s*,\s*'([^']*)'\s*\)
IsSizeLine(l) == l.kind = "DIMENSIONAL_SIZE" /\ Len(l.refs) = 1

\* (#\d+)\s*=\s*DIMENSIONAL_LOCATION\s*\(\s*'([^']*)'[^#]*#(\d+)[^#]*#(\d+)
IsLocationLine(l) == l.kind = "DIMENSIONAL_LOCATION" /\ Len(l.refs) >= 2

\* Contained returning the rows collected before the exception
Collected(results) == results

\* except Exception: return [] -- what extract_dimensional_tolerances returns
\* when it raised after collecting results
Contained(results) == <<>>

\* extract_dimensional_tolerances: one step of a loop over dimension lines; an
\* exception ends the extractor with an empty list
DimensionalStep(here, Ok(_), Row(_, _, _, _, _), next) ==
  /\ pc = here
  /\ LET j == NextMatch(text, cursor, Ok)
     IN  IF j = 0
         THEN /\ pc' = next
              /\ cursor' = 1
              /\ UNCHANGED <<dimensional_results, origin>>
         ELSE LET row == Row(text[j], text, line_dict, datum_results, datum_letter_to_feature)
              IN  IF row = IndexError
                  THEN /\ dimensional_results' = Contained(dimensional_results)
                       /\ origin' = [origin EXCEPT !.dim = Contained(@)]
                       /\ cursor' = 1
                       /\ pc' = "rows"
                  ELSE /\ dimensional_results' = AddRow(dimensional_results, row)
                       /\ origin' = [origin EXCEPT !.dim = AddRow(@, j)]
                       /\ cursor' = j + 1
                       /\ pc' = pc
  /\ UNCHANGED <<corpus, returned, text, line_dict, datum_results, datum_letter_to_feature,
                 tol_results, table_rows>>
  /\ UNCHANGED classifyVars

\* the loop over the DIMENSIONAL_SIZE lines
ScanDimensionalSize == DimensionalStep("size", IsSizeLine, SizeRow, "location")

\* the loop over the DIMENSIONAL_LOCATION lines
ScanDimensionalLocation == DimensionalStep("location", IsLocationLine, LocationRow, "rows")

\* Assemble with the datum rows first
AssembleDatumsFirst(geometric, dimensional, datums) == datums \o geometric \o dimensional

\* Assemble leaving the datum rows out
AssembleTolerances(geometric, dimensional, datums) == geometric \o dimensional

\* table_rows: the geometric rows, then the dimensional rows, then the datum rows
Assemble(geometric, dimensional, datums) == geometric \o dimensional \o datums

BuildRows ==
  /\ pc = "rows"
  /\ table_rows' =
       Assemble([i \in DOMAIN tol_results |-> GeometricRow(tol_results[i])],
                dimensional_results,
                [i \in DOMAIN datum_letter_to_feature |->
                   DatumRow(datum_letter_to_feature[i][1], datum_results)])
  /\ origin' = [origin EXCEPT !.rows =
       Assemble([i \in DOMAIN origin.tol |-> <<"geometric", origin.tol[i]>>],
                [i \in DOMAIN origin.dim |-> <<"dimensional", origin.dim[i]>>],
                [i \in DOMAIN datum_letter_to_feature |->
                   <<"datum", datum_letter_to_feature[i][1]>>])]
  /\ pc' = "done"
  /\ UNCHANGED <<corpus, returned, cursor, text, line_dict, datum_results,
                 datum_letter_to_feature, tol_results, dimensional_results>>
  /\ UNCHANGED classifyVars

\* return table_rows
Return ==
  /\ pc = "done"
  /\ returned' = returned \cup {<<text, table_rows>>}
  /\ pc' = "idle"
  /\ UNCHANGED <<corpus, cursor, text, line_dict, datum_results, datum_letter_to_feature,
                 tol_results, dimensional_results, table_rows, origin>>
  /\ UNCHANGED classifyVars

Next ==
  \/ Upload
  \/ ScanDatum
  \/ ScanShapeAspect
  \/ ScanTolerance
  \/ ScanDimensionalSize
  \/ ScanDimensionalLocation
  \/ BuildRows
  \/ Return

(***************************************************************************)
(* Input files                                                             *)
(***************************************************************************)
\* the sequences of at most n distinct lines of a pool
Arrangements(pool, n) ==
  UNION {{f \in [1..k -> pool] : \A i, j \in 1..k : f[i] = f[j] => i = j} : k \in 1..n}

MaxLines == 3

\* #10=DATUM('Datum1@Boss1(A)',$,#1,.F.,'A');  and so on
GeneralPool ==
  {Line(10, "DATUM", "Datum1@Boss1(A)", "A", <<1>>, "std"),
   Line(11, "DATUM", "Datum2@Plane1(B)", "B", <<2>>, "std"),
   Line(20, "CYLINDRICITY_TOLERANCE", "Tol(A)", "", <<30>>, "std"),
   Line(21, "FLATNESS_TOLERANCE", "Flat(A)", "", <<30>>, "std"),
   Line(22, "STRAIGHTNESS_TOLERANCE", "Edge", "", <<31>>, "std"),
   Line(30, "LENGTH_MEASURE_WITH_UNIT", "", "0.05", <<3>>, "std"),
   Line(40, "SHAPE_ASPECT", "Boss1", "", <<4>>, "std"),
   Line(41, "SHAPE_ASPECT", "Plane2(C", "", <<5>>, "short"),
   Line(50, "DIMENSIONAL_SIZE", "", "diameter", <<40>>, "std"),
   Line(51, "DIMENSIONAL_SIZE", "", "radius", <<41>>, "std"),
   Line(52, "DIMENSIONAL_LOCATION", "", "linear distance", <<40, 41>>, "std")}

GeneralFiles == Arrangements(GeneralPool, MaxLines)

DatumPrefixes == <<"Datum1", "UpperDatum2">>
DatumTokens == <<"Boss1", "Plane1", "Plane", "Slot">>
DatumLetters == <<"B", "D">>

\* #n=DATUM('X@Y(L)',$,#m,.F.,'L'); for every X, Y and L above, n distinct
DatumPool ==
  {Line(100 + 8 * (x - 1) + 2 * (y - 1) + (c - 1), "DATUM",
        DatumPrefixes[x] \o "@" \o DatumTokens[y] \o "(" \o DatumLetters[c] \o ")",
        DatumLetters[c], <<1>>, "std") :
     x \in DOMAIN DatumPrefixes, y \in DOMAIN DatumTokens, c \in DOMAIN DatumLetters}

MaxDatumLines == 2

DatumFiles == Arrangements(DatumPool, MaxDatumLines)

MaxKnownDatums == 2
MaxStraightness == 4

\* the i-th of a run of DATUM lines: letters A, B, ... on Boss and Plane features
KnownDatum(i) ==
  LET letter == Char(UpperChars, i)
  IN  Line(10 + i, "DATUM",
           "Datum" \o ToString(i) \o "@" \o (IF i % 2 = 1 THEN "Boss" ELSE "Plane")
              \o ToString(i) \o "(" \o letter \o ")",
           letter, <<1>>, "std")

\* k DATUM lines followed by n STRAIGHTNESS_TOLERANCE lines without any hint
StraightnessFile(k, n) ==
  [i \in 1..k |-> KnownDatum(i)]
    \o [i \in 1..n |-> Line(20 + i, "STRAIGHTNESS_TOLERANCE", "Edge", "", <<31>>, "std")]

StraightnessFiles ==
  {StraightnessFile(k, n) : k \in 0..MaxKnownDatums, n \in 1..MaxStraightness}

LowerDeviations == {"-0.1", "0.1"}
UpperDeviations == {"0.1", "0.3", "-0.3"}
Nominals == {"10.0", "0"}

\* a DIMENSIONAL_SIZE of a Boss feature with its nominal value and its
\* PLUS_MINUS_TOLERANCE -> TOLERANCE_VALUE -> LENGTH_MEASURE chain, next to a
\* datum and a geometric tolerance
LimitFile(lo, up, nominal) ==
  <<Line(10, "DATUM", "Datum1@Boss1(A)", "A", <<1>>, "std"),
    Line(20, "CYLINDRICITY_TOLERANCE", "Tol(A)", "", <<30>>, "std"),
    Line(30, "LENGTH_MEASURE_WITH_UNIT", "", "0.05", <<3>>, "std"),
    Line(40, "SHAPE_ASPECT", "Boss1", "", <<4>>, "std"),
    Line(50, "DIMENSIONAL_SIZE", "", "diameter", <<40>>, "std"),
    Line(60, "DIMENSIONAL_CHARACTERISTIC_REPRESENTATION", "", "", <<50, 61>>, "std"),
    Line(61, "SHAPE_DIMENSION_REPRESENTATION", "", "", <<62, 5>>, "std"),
    Line(62, "MEASURE_REPRESENTATION_ITEM", "", nominal, <<6>>, "std"),
    Line(70, "PLUS_MINUS_TOLERANCE", "", "", <<71, 50>>, "std"),
    Line(71, "TOLERANCE_VALUE", "", "", <<72, 73>>, "std"),
    Line(72, "LENGTH_MEASURE_WITH_UNIT", "", lo, <<3>>, "std"),
    Line(73, "LENGTH_MEASURE_WITH_UNIT", "", up, <<3>>, "std")>>

LimitFiles ==
  {LimitFile(lo, up, nominal) :
     lo \in LowerDeviations, up \in UpperDeviations, nominal \in Nominals}

\* the names the shape aspects of a dimension carry; "" is a shape aspect
\* that the file does not hold
FeatureNames == {"", "Boss1", "Plane2", "Groove", "Datum29@Boss1(B)", "Slot(B)", "Plane1(A)"}

\* #id=SHAPE_ASPECT('name','',#4,.F.);
AspectLine(id, name) ==
  IF name = "" THEN <<>> ELSE <<Line(id, "SHAPE_ASPECT", name, "", <<4>>, "std")>>

\* k DATUM lines, the shape aspects #40 and #41, a DIMENSIONAL_SIZE of each
\* and a DIMENSIONAL_LOCATION between the two
DimensionFile(k, n1, n2) ==
  [i \in 1..k |-> KnownDatum(i)]
    \o AspectLine(40, n1) \o AspectLine(41, n2)
    \o <<Line(50, "DIMENSIONAL_SIZE", "", "diameter", <<40>>, "std"),
          Line(51, "DIMENSIONAL_SIZE", "", "radius", <<41>>, "std"),
          Line(52, "DIMENSIONAL_LOCATION", "", "linear distance", <<40, 41>>, "std")>>

DimensionFiles ==
  {DimensionFile(k, n1, n2) : k \in 0..MaxKnownDatums, n1 \in FeatureNames, n2 \in FeatureNames}

\* one line of each recognised keyword family, every line well formed
SpelledBase ==
  <<Line(10, "DATUM", "Datum1@Boss1(A)", "A", <<1>>, "std"),
    Line(41, "SHAPE_ASPECT", "Plane2(C", "", <<5>>, "short"),
    Line(21, "FLATNESS_TOLERANCE", "Flat(A)", "", <<30>>, "std"),
    Line(51, "DIMENSIONAL_SIZE", "", "radius", <<41>>, "std")>>

Spellings == {"spaced", "lower", "bare"}

\* line l written in spelling s, in the layout it has
Spelled(l, s) == [l EXCEPT !.form = IF Short(l) THEN "short " \o s ELSE s]

\* the base file with its k-th line written in spelling s
SpelledFile(k, s) == [SpelledBase EXCEPT ![k] = Spelled(SpelledBase[k], s)]

SpelledFiles == {SpelledBase} \cup {SpelledFile(k, s) : k \in DOMAIN SpelledBase, s \in Spellings}

\* measure texts: a number, two decimal points, only a point, a word, a
\* signed number, a number followed by a unit
MeasureTexts == {"0.05", "1.2.3", ".", "abc", "-0.5", "5mm"}

\* a tolerance and the measure it references; "" leaves the measure line out
MeasureFile(m) ==
  <<Line(20, "CYLINDRICITY_TOLERANCE", "Tol", "", <<30>>, "std")>>
    \o (IF m = "" THEN <<>> ELSE <<Line(30, "LENGTH_MEASURE_WITH_UNIT", "", m, <<3>>, "std")>>)

MeasureFiles == {MeasureFile(m) : m \in MeasureTexts \cup {""}}

\* datum lines that define a letter twice, with another letter beside them
RedefinedPool ==
  {Line(110, "DATUM", "Datum1@Boss1(B)", "B", <<1>>, "std"),
   Line(111, "DATUM", "Datum2@Plane1(D)", "D", <<2>>, "std"),
   Line(112, "DATUM", "Datum3@Plane2(B)", "B", <<3>>, "std")}

RedefinedFiles == Arrangements(RedefinedPool, Cardinality(RedefinedPool))

\* a tolerance #2 that references #3, beside a DATUM_FEATURE #id that
\* references #ref
FeatureFile(id, ref) ==
  <<Line(110, "DATUM", "Datum2@Plane1(B)", "B", <<1>>, "std"),
    Line(2, "CYLINDRICITY_TOLERANCE", "Tol", "", <<3>>, "std"),
    Line(id, "DATUM_FEATURE", "F(B)", "", <<ref>>, "std")>>

\* a dimension #5 beside a characteristic representation of #dim that leads
\* to the nominal 10.0
NominalFile(dim) ==
  <<Line(40, "SHAPE_ASPECT", "Boss1", "", <<4>>, "std"),
    Line(5, "DIMENSIONAL_SIZE", "", "diameter", <<40>>, "std"),
    Line(60, "DIMENSIONAL_CHARACTERISTIC_REPRESENTATION", "", "", <<dim, 61>>, "std"),
    Line(61, "SHAPE_DIMENSION_REPRESENTATION", "", "", <<62, 8>>, "std"),
    Line(62, "MEASURE_REPRESENTATION_ITEM", "", "10.0", <<6>>, "std")>>

\* references to the very id, to a longer id that starts with it, to another id
ReferenceFiles ==
  {FeatureFile(7, 3), FeatureFile(7, 30), FeatureFile(25, 9), FeatureFile(7, 9)}
    \cup {NominalFile(5), NominalFile(50), NominalFile(7)}

\* a tolerance with its measure, k DATUM lines and the dimensions of two
\* shape aspects; with no DATUM line datum matching raises IndexError for the
\* name 'Plane0'
MixedNames == {"Groove", "Plane0"}

MixedFile(k, n1, n2) ==
  <<Line(20, "CYLINDRICITY_TOLERANCE", "Tol", "", <<30>>, "std"),
    Line(30, "LENGTH_MEASURE_WITH_UNIT", "", "0.05", <<3>>, "std")>>
    \o DimensionFile(k, n1, n2)

MixedFiles == {MixedFile(k, n1, n2) : k \in 0..1, n1 \in MixedNames, n2 \in MixedNames}

Files == GeneralFiles \cup DatumFiles \cup StraightnessFiles \cup LimitFiles
           \cup DimensionFiles \cup SpelledFiles \cup MeasureFiles \cup RedefinedFiles
           \cup ReferenceFiles \cup MixedFiles \cup {NoneArgument}

MaxRerunLines == 2

RerunPool ==
  {Line(10, "DATUM", "Datum1@Boss1(A)", "A", <<1>>, "std"),
   Line(11, "DATUM", "Datum2@Plane1(B)", "B", <<2>>, "std"),
   Line(21, "FLATNESS_TOLERANCE", "Flat(A)", "", <<30>>, "std"),
   Line(22, "STRAIGHTNESS_TOLERANCE", "Edge", "", <<31>>, "std")}

RerunFiles == Arrangements(RerunPool, MaxRerunLines)

\* the caller holds one file, or two files it extracts in any order, any
\* number of times
Corpora == {{t} : t \in Files} \cup {{t, u} : t \in RerunFiles, u \in RerunFiles}

Init ==
  /\ corpus \in Corpora
  /\ returned = {}
  /\ pc = "idle"
  /\ cursor = 1
  /\ text = <<>>
  /\ line_dict = <<>>
  /\ datum_results = <<>>
  /\ datum_letter_to_feature = <<>>
  /\ tol_results = <<>>
  /\ dimensional_results = <<>>
  /\ table_rows = <<>>
  /\ origin = NoOrigin
  /\ feature_name = ""
  /\ datum_letter = ""
  /\ plane_position = ""

Spec == Init /\ [][Next]_vars

(***************************************************************************)
(* determine_plane_position on its own                                     *)
(***************************************************************************)
ClassifyNames ==
  {"", "Plane1", "Plane2", "SomePlane", "RandomName", "TopPlane", "Base Plane1",
   "Plane0", "Plane3", "Plane10", "Plane01", "LowPlane", "Plane +Z", "Boss1", "Above"}

ClassifyLetters == {"", "A", "B", "C", "D", "E", "F", "G", "H", "a", "Z"}

InitClassify ==
  /\ feature_name \in ClassifyNames
  /\ datum_letter \in ClassifyLetters
  /\ plane_position = ""
  /\ corpus = {}
  /\ returned = {}
  /\ pc = "idle"
  /\ cursor = 1
  /\ text = <<>>
  /\ line_dict = <<>>
  /\ datum_results = <<>>
  /\ datum_letter_to_feature = <<>>
  /\ tol_results = <<>>
  /\ dimensional_results = <<>>
  /\ table_rows = <<>>
  /\ origin = NoOrigin

Classify ==
  /\ pc = "idle"
  /\ plane_position' = determine_plane_position(feature_name, datum_letter)
  /\ pc' = "classified"
  /\ UNCHANGED <<corpus, returned, cursor, text, line_dict, datum_results,
                 datum_letter_to_feature, tol_results, dimensional_results,
                 table_rows, origin, feature_name, datum_letter>>

NextClassify == Classify

SpecClassify == InitClassify /\ [][NextClassify]_vars

(***************************************************************************)
(* main.py: extract_tolerance_table, the entry point of the basic variant. *)
(* Its datum scan and shape-aspect scan are the code of the scans above.   *)
(***************************************************************************)
\* Methods 1 to 4 of main.py: the tuple appended to tol_results
TableTuple(l, index, dr) ==
  LET tol_name == l.name
      tol_name_lower == Lower(tol_name)
      label == TolLabel(l)
      value == TolValue(DictGet(index, l.refs[1], NoLine))
      \* Method 1
      d1 == ParenUpper(tol_name)
      l1 == IF d1 # "" THEN DictGet(dr, d1, "") ELSE ""
      \* Method 2
      k2 == FirstKey(dr, LAMBDA k, v : \/ Contains(tol_name_lower, "(" \o Lower(k) \o ")")
                                       \/ Contains(tol_name, "(" \o Upper(k) \o ")"))
      d2 == IF d1 = "" /\ k2 # "" THEN k2 ELSE d1
      l2 == IF d1 = "" /\ k2 # "" THEN DictGet(dr, k2, "") ELSE l1
      \* Method 3
      l3 == IF l2 # "" THEN l2
            ELSE IF Contains(tol_name_lower, "boss1") THEN "cylindrical side"
            ELSE IF Contains(tol_name_lower, "plane1") THEN "bottom face"
            ELSE IF Contains(tol_name_lower, "plane2") THEN "top face"
            ELSE IF Contains(tol_name_lower, "plane") THEN "planar surface"
            ELSE ""
      \* Method 4
      l4 == IF l3 # "" THEN l3
            ELSE IF Lower(label) \in {"cylindricity", "circularity"} THEN "cylindrical side"
            ELSE IF Lower(label) = "flatness" THEN "planar surface"
            ELSE IF Lower(label) = "straightness" THEN "surface"
            ELSE ""
  IN  <<label, value, d2, l4>>

\* main.py: the row of one tolerance tuple
TableRow(t) ==
  LET label == t[1]
      datum == t[3]
      loc == t[4]
      symbol == gdnt_symbols(label)
      type_with_symbol == IF symbol # "" THEN symbol \o " " \o label ELSE label
      location_str == IF datum # "" THEN "at datum " \o datum
                      ELSE IF loc # "" THEN loc ELSE "surface"
      surface == IF loc = "cylindrical side" THEN "curved side of the cylinder"
                 ELSE IF loc = "bottom face" THEN "bottom face"
                 ELSE IF loc = "top face" THEN "top face"
                 ELSE IF loc = "planar surface" THEN "planar face"
                 ELSE IF loc # "" THEN loc ELSE "surface"
  IN  <<type_with_symbol, t[2], datum, location_str, surface>>

\* main.py: the row of one datum letter
TableDatumRow(d_letter, dr) ==
  LET location_str == DictGet(dr, d_letter, "surface")
  IN  <<"Datum", d_letter, d_letter, location_str, location_str>>

\* entry of extract_tolerance_table: no try statement; text.splitlines()
\* raises on an argument that is not a text and the exception leaves the
\* function
CallTable(t) ==
  /\ pc = "idle"
  /\ text' = t
  /\ line_dict' = IF IsText(t) THEN BuildIndex(t) ELSE <<>>
  /\ tol_results' = <<>>
  /\ datum_results' = <<>>
  /\ datum_letter_to_feature' = <<>>
  /\ dimensional_results' = <<>>
  /\ table_rows' = <<>>
  /\ origin' = NoOrigin
  /\ cursor' = 1
  /\ pc' = IF IsText(t) THEN "datum" ELSE "raised"
  /\ UNCHANGED <<corpus, returned>>

\* main.py upload_and_process: the caller hands one of its texts over
UploadTable ==
  /\ \E t \in corpus : CallTable(t)
  /\ UNCHANGED classifyVars

\* the loop over the matches of tol_pattern in main.py
ScanToleranceTable ==
  /\ pc = "tol"
  /\ LET j == NextMatch(text, cursor, IsTolLine)
     IN  IF j = 0
         THEN /\ pc' = "tablerows"
              /\ cursor' = 1
              /\ UNCHANGED <<tol_results, origin>>
         ELSE /\ tol_results' = AddRow(tol_results, TableTuple(text[j], line_dict, datum_results))
              /\ origin' = [origin EXCEPT !.tol = AddRow(@, j)]
              /\ cursor' = j + 1
              /\ pc' = pc
  /\ UNCHANGED <<corpus, returned, text, line_dict, datum_results, datum_letter_to_feature,
                 dimensional_results, table_rows>>
  /\ UNCHANGED classifyVars

\* main.py: table_rows, the tolerance rows and then the datum rows
BuildTableRows ==
  /\ pc = "tablerows"
  /\ table_rows' =
       Assemble([i \in DOMAIN tol_results |-> TableRow(tol_results[i])],
                <<>>,
                [i \in DOMAIN datum_letter_to_feature |->
                   TableDatumRow(datum_letter_to_feature[i][1], datum_results)])
  /\ origin' = [origin EXCEPT !.rows =
       Assemble([i \in DOMAIN origin.tol |-> <<"geometric", origin.tol[i]>>],
                <<>>,
                [i \in DOMAIN datum_letter_to_feature |->
                   <<"datum", datum_letter_to_feature[i][1]>>])]
  /\ pc' = "done"
  /\ UNCHANGED <<corpus, returned, cursor, text, line_dict, datum_results,
                 datum_letter_to_feature, tol_results, dimensional_results>>
  /\ UNCHANGED classifyVars

\* main.py upload_and_process: the except clause around the call shows the
\* error and the interface waits for the next upload
ShowError ==
  /\ pc = "raised"
  /\ pc' = "idle"
  /\ UNCHANGED <<corpus, returned, cursor, text, line_dict, datum_results,
                 datum_letter_to_feature, tol_results, dimensional_results, table_rows, origin>>
  /\ UNCHANGED classifyVars

NextTable ==
  \/ UploadTable
  \/ ScanDatum
  \/ ScanShapeAspect
  \/ ScanToleranceTable
  \/ BuildTableRows
  \/ Return
  \/ ShowError

MaxTableLines == 2

TablePool ==
  {l \in GeneralPool : l.kind \in TolKinds \cup {"DATUM", "LENGTH_MEASURE_WITH_UNIT"}
                         \/ Short(l)}

TableFiles == Arrangements(TablePool, MaxTableLines) \cup {NoneArgument}

InitTable ==
  /\ corpus \in {{t} : t \in TableFiles}
  /\ returned = {}
  /\ pc = "idle"
  /\ cursor = 1
  /\ text = <<>>
  /\ line_dict = <<>>
  /\ datum_results = <<>>
  /\ datum_letter_to_feature = <<>>
  /\ tol_results = <<>>
  /\ dimensional_results = <<>>
  /\ table_rows = <<>>
  /\ origin = NoOrigin
  /\ feature_name = ""
  /\ datum_letter = ""
  /\ plane_position = ""

SpecTable == InitTable /\ [][NextTable]_vars

(***************************************************************************)
(* Concurrent extractions on one extractor object.  Every name the         *)
(* extractor binds is a local of the invocation; here each variable of the *)
(* extraction holds one value per thread (pc, cursor, text, returned) or   *)
(* per frame of locals (the index, the maps and the row lists).            *)
(***************************************************************************)
Threads == {1, 2}

\* the locals of one invocation of extract_tolerance_data
Locals(index, dr, dlf, tols, dims, rows) ==
  [line_dict |-> index, datum_results |-> dr, datum_letter_to_feature |-> dlf,
   tol_results |-> tols, dimensional_results |-> dims, table_rows |-> rows]

\* the locals at entry: the entity index is built, every other one is empty
EntryLocals(t) ==
  Locals(IF IsText(t) THEN BuildIndex(t) ELSE <<>>, <<>>, <<>>, <<>>, <<>>, <<>>)

Position(p, c, d) == [pc |-> p, cursor |-> c, locals |-> d]

\* one step of extract_tolerance_data on text t at position p, cursor c, with
\* the locals d: the same steps as ScanDatum .. BuildRows
StepOf(t, p, c, d) ==
  CASE p = "datum" ->
         LET j == NextMatch(t, c, IsDatumLine)
         IN  IF j = 0 THEN Position("shape", 1, d)
             ELSE Position(p, j + 1,
                    [d EXCEPT !.datum_letter_to_feature = DictPut(@, t[j].arg, t[j].name),
                              !.datum_results = DictPut(@, t[j].arg,
                                                        DatumLocation(t[j].name, t[j].arg))])
    [] p = "shape" ->
         LET j == NextMatch(t, c, IsShapeAspectLine)
         IN  IF j = 0 THEN Position("tol", 1, d)
             ELSE Position(p, j + 1,
                    IF ShapeLetter(t[j]) # ""
                    THEN [d EXCEPT !.datum_results =
                            DictPut(@, ShapeLetter(t[j]), ShapeLocation(ShapeName(t[j])))]
                    ELSE d)
    [] p = "tol" ->
         LET j == NextMatch(t, c, IsTolLine)
         IN  IF j = 0 THEN Position("size", 1, d)
             ELSE Position(p, j + 1,
                    [d EXCEPT !.tol_results =
                       AddRow(@, ToleranceTuple(t[j], t, d.line_dict, d.datum_results,
                                                d.datum_letter_to_feature, Len(d.tol_results)))])
    [] p = "size" ->
         LET j == NextMatch(t, c, IsSizeLine)
             row == SizeRow(t[j], t, d.line_dict, d.datum_results, d.datum_letter_to_feature)
         IN  IF j = 0 THEN Position("location", 1, d)
             ELSE IF row = IndexError
                  THEN Position("rows", 1, [d EXCEPT !.dimensional_results = Contained(@)])
                  ELSE Position(p, j + 1, [d EXCEPT !.dimensional_results = AddRow(@, row)])
    [] p = "location" ->
         LET j == NextMatch(t, c, IsLocationLine)
             row == LocationRow(t[j], t, d.line_dict, d.datum_results, d.datum_letter_to_feature)
         IN  IF j = 0 THEN Position("rows", 1, d)
             ELSE IF row = IndexError
                  THEN Position("rows", 1, [d EXCEPT !.dimensional_results = Contained(@)])
                  ELSE Position(p, j + 1, [d EXCEPT !.dimensional_results = AddRow(@, row)])
    [] p = "rows" ->
         Position("done", c,
           [d EXCEPT !.table_rows =
              Assemble([i \in DOMAIN d.tol_results |-> GeometricRow(d.tol_results[i])],
                       d.dimensional_results,
                       [i \in DOMAIN d.datum_letter_to_feature |->
                          DatumRow(d.datum_letter_to_feature[i][1], d.datum_results)])])

RECURSIVE RunFrom(_, _, _, _)
\* the rows an invocation returns when it runs from position p to its end
\* with nothing else running
RunFrom(t, p, c, d) ==
  IF p = "done" THEN d.table_rows
  ELSE LET s == StepOf(t, p, c, d) IN RunFrom(t, s.pc, s.cursor, s.locals)

\* extract_tolerance_data(t) run alone
Alone(t) == RunFrom(t, IF IsText(t) THEN "datum" ELSE "done", 1, EntryLocals(t))

\* every thread working on the locals of frame 1
SharedFrame(th) == 1

\* the frame that holds the locals of the invocation running in thread th:
\* its own
OwnFrame(th) == th

\* the locals thread th works on
LocalsOf(th) ==
  LET f == OwnFrame(th)
  IN  Locals(line_dict[f], datum_results[f], datum_letter_to_feature[f],
             tol_results[f], dimensional_results[f], table_rows[f])

\* thread th continues with the locals d
Store(th, d) ==
  LET f == OwnFrame(th)
  IN  /\ line_dict' = [line_dict EXCEPT ![f] = d.line_dict]
      /\ datum_results' = [datum_results EXCEPT ![f] = d.datum_results]
      /\ datum_letter_to_feature' = [datum_letter_to_feature EXCEPT ![f] = d.datum_letter_to_feature]
      /\ tol_results' = [tol_results EXCEPT ![f] = d.tol_results]
      /\ dimensional_results' = [dimensional_results EXCEPT ![f] = d.dimensional_results]
      /\ table_rows' = [table_rows EXCEPT ![f] = d.table_rows]

Running(th) == pc[th] \notin {"idle", "returned"}

\* history: some step was taken while another invocation was under way
Overlap(th) == [origin EXCEPT !.overlap = @ \/ \E other \in Threads \ {th} : Running(other)]

\* thread th enters extract_tolerance_data with its text
CallThread(th) ==
  /\ pc[th] = "idle"
  /\ pc' = [pc EXCEPT ![th] = IF IsText(text[th]) THEN "datum" ELSE "done"]
  /\ cursor' = [cursor EXCEPT ![th] = 1]
  /\ Store(th, EntryLocals(text[th]))
  /\ origin' = Overlap(th)
  /\ UNCHANGED <<corpus, returned, text>>
  /\ UNCHANGED classifyVars

\* thread th takes its next step, Step being the step of the extractor at a
\* position; the interleaving is stated apart from what a step computes
StepThread(th, Step(_, _, _, _)) ==
  /\ pc[th] \in {"datum", "shape", "tol", "size", "location", "rows"}
  /\ LET s == Step(text[th], pc[th], cursor[th], LocalsOf(th))
     IN  /\ pc' = [pc EXCEPT ![th] = s.pc]
         /\ cursor' = [cursor EXCEPT ![th] = s.cursor]
         /\ Store(th, s.locals)
  /\ origin' = Overlap(th)
  /\ UNCHANGED <<corpus, returned, text>>
  /\ UNCHANGED classifyVars

\* thread th returns table_rows
ReturnThread(th) ==
  /\ pc[th] = "done"
  /\ returned' = [returned EXCEPT ![th] = LocalsOf(th).table_rows]
  /\ pc' = [pc EXCEPT ![th] = "returned"]
  /\ UNCHANGED <<corpus, cursor, text, line_dict, datum_results, datum_letter_to_feature,
                 tol_results, dimensional_results, table_rows, origin>>
  /\ UNCHANGED classifyVars

NextConcurrent ==
  \E th \in Threads :
    \/ CallThread(th)
    \/ StepThread(th, StepOf)
    \/ ReturnThread(th)

MaxConcurrentLines == 2

ConcurrentPool ==
  {Line(10, "DATUM", "Datum1@Boss1(A)", "A", <<1>>, "std"),
   Line(22, "STRAIGHTNESS_TOLERANCE", "Edge", "", <<31>>, "std"),
   Line(50, "DIMENSIONAL_SIZE", "", "diameter", <<40>>, "std")}

ConcurrentFiles == Arrangements(ConcurrentPool, MaxConcurrentLines) \cup {NoneArgument}

InitConcurrent ==
  /\ text \in [Threads -> ConcurrentFiles]
  /\ pc = [th \in Threads |-> "idle"]
  /\ cursor = [th \in Threads |-> 1]
  /\ returned = [th \in Threads |-> <<>>]
  /\ line_dict = [f \in Threads |-> <<>>]
  /\ datum_results = [f \in Threads |-> <<>>]
  /\ datum_letter_to_feature = [f \in Threads |-> <<>>]
  /\ tol_results = [f \in Threads |-> <<>>]
  /\ dimensional_results = [f \in Threads |-> <<>>]
  /\ table_rows = [f \in Threads |-> <<>>]
  /\ origin = [overlap |-> FALSE]
  /\ corpus = {}
  /\ feature_name = ""
  /\ datum_letter = ""
  /\ plane_position = ""

SpecConcurrent == InitConcurrent /\ [][NextConcurrent]_vars

(***************************************************************************)
(* find_datum_for_dimensional_tolerance on its own                         *)
(***************************************************************************)
FindNames ==
  {"Plane0", "Plane1", "Plane2", "Plane3", "Plane12", "TopPlane", "Slot", "Boss Plane1"}

\* the DATUM lines the maps of a call can come from
FindPool ==
  {Line(10, "DATUM", "Datum1@Boss1(A)", "A", <<1>>, "std"),
   Line(11, "DATUM", "Datum2@Plane1(B)", "B", <<2>>, "std"),
   Line(12, "DATUM", "Datum3@Plane2(C)", "C", <<3>>, "std")}

MaxFindDatums == 2

\* the maps the datum scan leaves for a file of these DATUM lines
FeatureMap(lines) == [i \in DOMAIN lines |-> <<lines[i].arg, lines[i].name>>]

LocationMap(lines) ==
  [i \in DOMAIN lines |-> <<lines[i].arg, DatumLocation(lines[i].name, lines[i].arg)>>]

InitFind ==
  /\ feature_name \in FindNames
  /\ text \in Arrangements(FindPool, MaxFindDatums) \cup {<<>>}
  /\ datum_letter_to_feature = FeatureMap(text)
  /\ datum_results = LocationMap(text)
  /\ returned = ""
  /\ pc = "idle"
  /\ corpus = {}
  /\ cursor = 1
  /\ line_dict = <<>>
  /\ tol_results = <<>>
  /\ dimensional_results = <<>>
  /\ table_rows = <<>>
  /\ origin = NoOrigin
  /\ datum_letter = ""
  /\ plane_position = ""

FindDatum ==
  /\ pc = "idle"
  /\ returned' = find_datum_for_dimensional_tolerance(feature_name, datum_results,
                                                      datum_letter_to_feature)
  /\ pc' = "found"
  /\ UNCHANGED <<corpus, cursor, text, line_dict, datum_results, datum_letter_to_feature,
                 tol_results, dimensional_results, table_rows, origin>>
  /\ UNCHANGED classifyVars

NextFind == FindDatum

SpecFind == InitFind /\ [][NextFind]_vars

(***************************************************************************)
(* Properties                                                              *)
(***************************************************************************)
Rows == DOMAIN table_rows

Done == pc = "done"

\* the block a result row was assembled from and the line it was made of
Block(i) == origin.rows[i][1]

Source(i) == origin.rows[i][2]

RowDatum(i) == table_rows[i][3]

RowLocation(i) == table_rows[i][4]

RowSurface(i) == table_rows[i][5]

\* C1: every geometric or dimensional row of a result whose Datum column is
\* not empty carries a letter that is a key of datum_results
C1_ReferentialIntegrity ==
  Done => \A i \in Rows :
            Block(i) \in {"geometric", "dimensional"} /\ RowDatum(i) # ""
              => DictHas(datum_results, RowDatum(i))

BlockRank(b) == CASE b = "geometric" -> 1 [] b = "dimensional" -> 2 [] b = "datum" -> 3

FirstDatumLine(letter) == NextMatch(text, 1, LAMBDA l : IsDatumLine(l) /\ l.arg = letter)

\* C2: the result is the geometric rows in the order of their entities in the
\* file, then the dimensional rows, then the datum rows in the order in which
\* the letters were first discovered; no row of a later block precedes a row
\* of an earlier block
C2_ThreeBlocks ==
  Done =>
    /\ Len(origin.rows) = Len(table_rows)
    /\ \A i \in Rows : (table_rows[i][1] = "Datum") <=> (Block(i) = "datum")
    /\ \A i, j \in Rows : i < j => BlockRank(Block(i)) <= BlockRank(Block(j))
    /\ \A i, j \in Rows :
         i < j /\ Block(i) = "geometric" /\ Block(j) = "geometric" => Source(i) < Source(j)
    /\ {Source(i) : i \in {r \in Rows : Block(r) = "geometric"}}
         = {j \in DOMAIN text : IsTolLine(text[j])}
    /\ \A i, j \in Rows :
         i < j /\ Block(i) = "datum" /\ Block(j) = "datum"
           => /\ FirstDatumLine(Source(i)) > 0
              /\ FirstDatumLine(Source(i)) < FirstDatumLine(Source(j))

\* a file whose datum line precedes its dimension line, which precedes its
\* tolerance line, has been extracted into rows of all three blocks
C2_Witness ==
  /\ Done
  /\ \E i, j, k \in DOMAIN text :
       /\ i < j /\ j < k
       /\ IsDatumLine(text[i]) /\ IsSizeLine(text[j]) /\ IsTolLine(text[k])
  /\ \E a, b, c \in Rows :
       /\ Block(a) = "geometric" /\ Block(b) = "dimensional" /\ Block(c) = "datum"
       /\ a < b /\ b < c

\* C3: within the dimensional block the rows are in the order of their
\* entities in the file, DIMENSIONAL_SIZE and DIMENSIONAL_LOCATION in any mix
C3_DimensionalFileOrder ==
  Done => \A i, j \in Rows :
            i < j /\ Block(i) = "dimensional" /\ Block(j) = "dimensional"
              => Source(i) < Source(j)

\* C3 as amended: within the dimensional block every DIMENSIONAL_SIZE row
\* precedes every DIMENSIONAL_LOCATION row, and the rows of each of the two
\* kinds are in the order of their entities in the file
C3_SizesThenLocations ==
  Done => \A i, j \in Rows :
            i < j /\ Block(i) = "dimensional" /\ Block(j) = "dimensional"
              => \/ IsSizeLine(text[Source(i)]) /\ IsLocationLine(text[Source(j)])
                 \/ /\ text[Source(i)].kind = text[Source(j)].kind
                    /\ Source(i) < Source(j)

\* a location line written before two size lines: its row comes after theirs
C3_Witness ==
  /\ Done
  /\ \E i, j, k \in Rows :
       /\ i < j /\ j < k
       /\ Block(i) = "dimensional" /\ Block(k) = "dimensional"
       /\ IsSizeLine(text[Source(i)]) /\ IsSizeLine(text[Source(j)])
       /\ IsLocationLine(text[Source(k)])
       /\ Source(k) < Source(i) /\ Source(i) < Source(j)

\* C4: in one result any two rows with equal Location have equal Surface,
\* geometric, dimensional and datum rows alike
C4_SurfaceOfLocation ==
  Done => \A i, j \in Rows : RowLocation(i) = RowLocation(j) => RowSurface(i) = RowSurface(j)

\* C4 as amended: in one result any two rows of the same block (two geometric
\* rows, two dimensional rows or two datum rows) with equal Location have
\* equal Surface
C4_SurfaceOfLocationPerBlock ==
  Done => \A i, j \in Rows :
            Block(i) = Block(j) /\ RowLocation(i) = RowLocation(j)
              => RowSurface(i) = RowSurface(j)

\* two geometric rows of different tolerance types share a location that is
\* given another wording as a surface, next to the datum row of that location
C4_Witness ==
  /\ Done
  /\ \E i, j, d \in Rows :
       /\ Block(i) = "geometric" /\ Block(j) = "geometric" /\ Block(d) = "datum"
       /\ table_rows[i][1] # table_rows[j][1]
       /\ RowLocation(i) = RowLocation(j)
       /\ RowLocation(d) = RowLocation(i)
       /\ RowSurface(i) # RowLocation(i)

\* C5: every extraction of a text on the same extractor yields the rows every
\* other extraction of that text yielded, whatever was extracted in between
C5_Deterministic ==
  /\ \A p, q \in returned : p[1] = q[1] => p[2] = q[2]
  /\ Done => \A p \in returned : p[1] = text => p[2] = table_rows

\* a text is extracted again after the other text of the caller was extracted
C5_Witness ==
  /\ Done
  /\ Cardinality(corpus) = 2
  /\ \E p, q \in returned : p[1] = text /\ q[1] # text /\ p[2] # q[2]
  /\ table_rows # <<>>

DatumsScanned == pc = "shape" /\ cursor = 1

\* the entries of the datum scan: line, letter, recorded location
Scanned == DOMAIN origin.datum

ScannedToken(p) == AtToken(text[origin.datum[p][1]].name)

ScannedLetter(p) == origin.datum[p][2]

ScannedLocation(p) == origin.datum[p][3]

\* the map holds, for each letter, what the last line of the letter recorded
MapOfScan ==
  /\ \A j \in DOMAIN text : IsDatumLine(text[j]) => DictHas(datum_results, text[j].arg)
  /\ \A p \in Scanned :
       (\A q \in Scanned : ScannedLetter(q) = ScannedLetter(p) => q <= p)
         => DictGet(datum_results, ScannedLetter(p), "") = ScannedLocation(p)

\* C6: after the datum scan the map holds the letter of every DATUM line
\* 'X@Y(L)', and the location recorded for a line is a function of its token
\* Y alone: two lines with the same Y are given the same location
C6_LocationOfTokenOnly ==
  DatumsScanned =>
    /\ MapOfScan
    /\ \A p, q \in Scanned :
         ScannedToken(p) = ScannedToken(q) => ScannedLocation(p) = ScannedLocation(q)

\* C6 as amended: after the datum scan the map holds the letter of every DATUM
\* line 'X@Y(L)', and the location recorded for a line is a function of its
\* token Y and its letter L: two lines with the same Y and the same L are
\* given the same location, whatever X and n
C6_LocationOfTokenAndLetter ==
  DatumsScanned =>
    /\ MapOfScan
    /\ \A p, q \in Scanned :
         ScannedToken(p) = ScannedToken(q) /\ ScannedLetter(p) = ScannedLetter(q)
           => ScannedLocation(p) = ScannedLocation(q)

\* two DATUM lines with different X and n and the same Y and L were scanned
C6_Witness ==
  /\ DatumsScanned
  /\ \E p, q \in Scanned :
       /\ text[origin.datum[p][1]].name # text[origin.datum[q][1]].name
       /\ text[origin.datum[p][1]].id # text[origin.datum[q][1]].id
       /\ ScannedToken(p) = ScannedToken(q)
       /\ ScannedLetter(p) = ScannedLetter(q)
       /\ ScannedToken(p) = "Plane"

RuledLetters == {"A", "B", "C", "D", "E", "F", "G", "H"}

\* the cascade as the contract words it, for a lower-cased name
Cascade(fn, fname, letter) ==
  IF ContainsAny(fname, {"top", "upper", "above"}) THEN "top face"
  ELSE IF ContainsAny(fname, {"bottom", "lower", "below", "base"}) THEN "bottom face"
  ELSE IF letter = "A" THEN "bottom face"
  ELSE IF letter \in {"B", "C"} THEN "cylindrical side"
  ELSE IF letter = "D" THEN "top face"
  ELSE IF letter \in {"E", "G"} THEN "top face"
  ELSE IF letter \in {"F", "H"} THEN "bottom face"
  ELSE IF Contains(fname, "plane1") THEN "bottom face"
  ELSE IF Contains(fname, "plane2") THEN "top face"
  ELSE IF PlaneNumber(fname) = 1 THEN "bottom face"
  ELSE IF PlaneNumber(fname) >= 2 THEN "top face"
  ELSE IF Contains(fname, "plane")
       THEN IF ContainsAny(fname, {"+z", "positive", "high"}) THEN "top face"
            ELSE IF ContainsAny(fname, {"-z", "negative", "low"}) THEN "bottom face"
            ELSE "planar surface"
  ELSE fn

Classified == pc = "classified"

Example(fn, letter, position) ==
  feature_name = fn /\ datum_letter = letter => plane_position = position

Tolerances == DOMAIN tol_results

TolLine(i) == text[origin.tol[i]]

\* C8: a geometric tolerance whose own name holds an uppercase letter in
\* parentheses gets exactly that letter as its datum, whatever the later
\* tiers find
C8_TierOneWins ==
  \A i \in Tolerances :
    ParenUpper(TolLine(i).name) # "" => tol_results[i][3] = ParenUpper(TolLine(i).name)

\* C9: a Straightness tolerance that reaches the type-based fallback while
\* k >= 1 datum letters are known gets the datum at position (number of
\* tolerance rows produced before it) mod k of the known letters, and that
\* datum's location
C9_StraightnessRoundRobin ==
  pc \in {"tol", "size", "location", "rows", "done"} =>
    \A i \in Tolerances :
      LET k == Len(datum_results)
          reached == EarlierTiers(TolLine(i), text, line_dict, datum_results,
                                  datum_letter_to_feature).loc = ""
      IN  tol_results[i][1] = "Straightness" /\ reached /\ k >= 1
            => /\ tol_results[i][3] = DictKeys(datum_results)[((i - 1) % k) + 1]
               /\ tol_results[i][4] = DictGet(datum_results, tol_results[i][3], "")

\* C10: in every result each geometric row and each datum row has empty
\* Tolerance Value, Upper Limit and Lower Limit columns
C10_OnlyDimensionalLimits ==
  Done => \A i \in Rows :
            Block(i) \in {"geometric", "datum"}
              => table_rows[i][6] = "" /\ table_rows[i][7] = "" /\ table_rows[i][8] = ""

\* a result with a geometric row, a datum row and a dimensional row that
\* carries a tolerance value and both limits
C10_Witness ==
  /\ Done
  /\ \E a, b, c \in Rows :
       /\ Block(a) = "geometric" /\ Block(b) = "dimensional" /\ Block(c) = "datum"
       /\ table_rows[b][6] # "" /\ table_rows[b][7] # "" /\ table_rows[b][8] # ""

DatumRowsOf(letter) == {i \in Rows : Block(i) = "datum" /\ table_rows[i][2] = letter}

\* C11: the datum block has exactly one row per key of the datum->location
\* map at the end of resolution, and the row of letter L is
\* ('Datum', L, L, loc, loc, '', '', '') with loc the location the map holds
\* for L
C11_OneRowPerResolvedDatum ==
  Done =>
    /\ \A i \in Rows :
         Block(i) = "datum"
           => /\ DictHas(datum_results, table_rows[i][2])
              /\ table_rows[i] =
                   LET L == table_rows[i][2]
                       loc == DictGet(datum_results, L, "")
                   IN  <<"Datum", L, L, loc, loc, "", "", "">>
    /\ \A k \in DOMAIN datum_results : Cardinality(DatumRowsOf(datum_results[k][1])) = 1

\* C12: whatever raises inside an extraction entry point is caught by the
\* entry point itself, which then returns an empty result; no exception
\* leaves the entry point for its caller
C12_NothingCrosses ==
  /\ pc # "raised"
  /\ Done /\ ~IsText(text) => table_rows = <<>>

Dimensional == {i \in Rows : Block(i) = "dimensional"}

\* the dimension line of a dimensional row and what its links resolve to
DimensionOf(i) == text[Source(i)].id

DeviationsOf(i) == tolerance_values(text, dimension_to_tolerance(text, DimensionOf(i)))

LinkResolved(i) == dimension_to_tolerance(text, DimensionOf(i)) # 0 /\ DeviationsOf(i).ok

NominalResolved(i) == NominalOf(text, line_dict, DimensionOf(i))

\* C13: a dimensional row whose tolerance link PLUS_MINUS_TOLERANCE ->
\* TOLERANCE_VALUE -> two LENGTH_MEASURE values is resolved has the Tolerance
\* Value '+/-' and half the absolute difference of the two deviations with
\* three decimals, and, when the nominal is resolved too, Upper Limit =
\* nominal + upper deviation and Lower Limit = nominal + lower deviation with
\* three decimals; deviations -0.1 and 0.1 with nominal 10.0 give '+/-0.100',
\* '10.100' and '9.900'
C13_NumericLimits ==
  Done => \A i \in Dimensional :
    /\ LinkResolved(i)
         => /\ table_rows[i][6]
                 = "+/-" \o Fixed3(Abs(DeviationsOf(i).upper - DeviationsOf(i).lower) \div 2)
            /\ NominalResolved(i).ok
                 => /\ table_rows[i][7] = Fixed3(NominalResolved(i).v + DeviationsOf(i).upper)
                    /\ table_rows[i][8] = Fixed3(NominalResolved(i).v + DeviationsOf(i).lower)
    /\ text = LimitFile("-0.1", "0.1", "10.0")
         => /\ table_rows[i][6] = "+/-0.100"
            /\ table_rows[i][7] = "10.100"
            /\ table_rows[i][8] = "9.900"

\* #10=DATUM('Datum1@Boss1(A)',$,#1,.F.,'A');
\* #20=CYLINDRICITY_TOLERANCE('Tol(A)','',#30);
\* #30=LENGTH_MEASURE_WITH_UNIT(LENGTH_MEASURE(0.05),#3);
ScenarioLines ==
  {Line(10, "DATUM", "Datum1@Boss1(A)", "A", <<1>>, "std"),
   Line(20, "CYLINDRICITY_TOLERANCE", "Tol(A)", "", <<30>>, "std"),
   Line(30, "LENGTH_MEASURE_WITH_UNIT", "", "0.05", <<3>>, "std")}

IsScenario(t) == Len(t) = 3 /\ {t[k] : k \in DOMAIN t} = ScenarioLines

\* C14: for the input holding the DATUM line of 'Datum1@Boss1(A)', the
\* CYLINDRICITY_TOLERANCE line of 'Tol(A)' and the LENGTH_MEASURE(0.05) line
\* it refers to, the result is exactly two rows: the geometric row (glyph and
\* 'Cylindricity', '0.05', 'A', 'cylindrical side', 'curved side of the
\* cylinder', '', '', '') and then the datum row of 'A'
C14_GeometricScenario ==
  Done /\ IsScenario(text) =>
    table_rows =
      << <<gdnt_symbols("Cylindricity") \o " Cylindricity", "0.05", "A", "cylindrical side",
           "curved side of the cylinder", "", "", "">>,
         <<"Datum", "A", "A", "cylindrical side", "cylindrical side", "", "", "">> >>

\* the scenario, written in the order of the contract, has been extracted
C14_Witness ==
  /\ Done
  /\ IsScenario(text)
  /\ text[1].kind = "DATUM" /\ text[2].kind = "CYLINDRICITY_TOLERANCE"
  /\ Len(table_rows) = 2

SizeRows == {i \in Dimensional : IsSizeLine(text[Source(i)])}

\* the feature name a DIMENSIONAL_SIZE row was made for
SizedFeature(i) == AspectName(DictGet(line_dict, text[Source(i)].refs[1], NoLine))

OnBoss(i) == Contains(Lower(SizedFeature(i)), "boss")

DiameterType(i) == table_rows[i][1] = gdnt_symbols("Diameter") \o " Diameter"

\* C15: every DIMENSIONAL_SIZE row has type 'Diameter' whatever its declared
\* type, and Location/Surface 'cylindrical side'/'curved side of the
\* cylinder', refined to 'cylindrical surface'/'curved side of the cylinder'
\* exactly when the feature name contains 'boss'
C15_SizeRowBossSurface ==
  Done => \A i \in SizeRows :
    /\ DiameterType(i)
    /\ RowSurface(i) = "curved side of the cylinder"
    /\ RowLocation(i) = IF OnBoss(i) THEN "cylindrical surface" ELSE "cylindrical side"

\* C15 as amended: every DIMENSIONAL_SIZE row has type 'Diameter' whatever its
\* declared type, Surface 'curved side of the cylinder', and Location
\* 'cylindrical surface', which becomes 'cylindrical side' exactly when the
\* feature name contains 'boss' in any letter case
C15_SizeRowBossSide ==
  Done => \A i \in SizeRows :
    /\ DiameterType(i)
    /\ RowSurface(i) = "curved side of the cylinder"
    /\ RowLocation(i) = IF OnBoss(i) THEN "cylindrical side" ELSE "cylindrical surface"

\* a result with the size row of a boss and the size row, declared a radius,
\* of a feature that is no boss
C15_Witness ==
  /\ Done
  /\ \E i, j \in SizeRows :
       /\ OnBoss(i) /\ SizedFeature(j) # "" /\ ~OnBoss(j)
       /\ text[Source(j)].arg = "radius"
       /\ RowLocation(i) # RowLocation(j)

\* the letter of a datum reference Datum<digits>@<feature>(<L>) written in a
\* feature name, the keyword in any letter case; "" if there is none
EmbeddedReference(fn) ==
  LET opens == {i \in 1..Len(fn) : Char(fn, i) = "("}
  IN  IF opens = {} THEN ""
      ELSE DatumRefLetter(Lower(SubSeq(fn, 1, Min(opens) - 1))
                            \o SubSeq(fn, Min(opens), Len(fn)))

\* C16: find_datum_for_dimensional_tolerance resolves a feature name that
\* embeds a datum reference with a letter (e.g. 'Datum29@Boss1(B)') to that
\* letter, and otherwise a name with a parenthesised letter that is a known
\* datum to that letter, before any heuristic is consulted
C16_ExplicitLetterFirst ==
  Done => \A i \in SizeRows :
    LET fn == SizedFeature(i)
    IN  /\ EmbeddedReference(fn) # "" => RowDatum(i) = EmbeddedReference(fn)
        /\ /\ EmbeddedReference(fn) = ""
           /\ ParenUpper(fn) # "" /\ DictHas(datum_results, ParenUpper(fn))
             => RowDatum(i) = ParenUpper(fn)

LocationRows == {i \in Dimensional : IsLocationLine(text[Source(i)])}

\* the two feature names of a DIMENSIONAL_LOCATION row
FirstFeature(i) == AspectName(DictGet(line_dict, text[Source(i)].refs[1], NoLine))

SecondFeature(i) == AspectName(DictGet(line_dict, text[Source(i)].refs[2], NoLine))

\* datum matching applied to one candidate name
Matched(name) ==
  find_datum_for_dimensional_tolerance(name, datum_results, datum_letter_to_feature)

\* C17: the datum of a DIMENSIONAL_LOCATION row is the first non-empty result
\* of datum matching applied to feature name 1, then to feature name 2, then
\* to 'name1 to name2'; a later candidate counts only if every earlier one
\* gave an empty result
C17_FirstNonEmptyCandidate ==
  Done => \A i \in LocationRows :
    RowDatum(i) =
      IF Matched(FirstFeature(i)) # "" THEN Matched(FirstFeature(i))
      ELSE IF Matched(SecondFeature(i)) # "" THEN Matched(SecondFeature(i))
      ELSE Matched(FirstFeature(i) \o " to " \o SecondFeature(i))

\* a location row between two features that match different datums
C17_Witness ==
  /\ Done
  /\ \E i \in LocationRows :
       /\ Matched(FirstFeature(i)) # ""
       /\ Matched(SecondFeature(i)) # ""
       /\ Matched(FirstFeature(i)) # Matched(SecondFeature(i))
       /\ RowDatum(i) = Matched(FirstFeature(i))

\* no shape aspect referenced by the dimension of row i is in the entity index
Unreferenced(i) ==
  \A k \in DOMAIN text[Source(i)].refs : ~DictHas(line_dict, text[Source(i)].refs[k])

DimensionLines == {j \in DOMAIN text : IsSizeLine(text[j]) \/ IsLocationLine(text[j])}

\* C18: a dimension whose shape aspect (or both shape aspects) is absent from
\* the entity index still gets its row, and the row's Datum column is empty,
\* for DIMENSIONAL_SIZE and DIMENSIONAL_LOCATION alike and whatever datums
\* the file defines
C18_UnresolvedReference ==
  Done =>
    /\ \A j \in DimensionLines :
         (\A k \in DOMAIN text[j].refs : ~DictHas(line_dict, text[j].refs[k]))
           => \E i \in Dimensional : Source(i) = j
    /\ \A i \in Dimensional : Unreferenced(i) => RowDatum(i) = ""

AspectsScanned == pc \in {"tol", "size", "location", "rows", "done"}

\* the SHAPE_ASPECT lines whose name carries a datum letter in parentheses
InlineLettered == {j \in DOMAIN text : text[j].kind = "SHAPE_ASPECT" /\ ParenUpper(text[j].name) # ""}

InlineLetter(j) == ParenUpper(text[j].name)

\* the name of the shape aspect without its letter
BareName(j) ==
  LET name == text[j].name
  IN  SubSeq(name, 1, Min({p \in 1..Len(name) : Char(name, p) = "("}) - 1)

\* C19: after the shape-aspect scan the datum->location map holds, for the
\* letter a SHAPE_ASPECT line carries in parentheses in its name (e.g.
\* 'Plane1(A)'), the location derived from the shape-aspect name (of the last
\* such line of the letter), in place of the location inferred from the DATUM
\* line
C19_ShapeAspectOverride ==
  AspectsScanned => \A j \in InlineLettered :
    (\A k \in InlineLettered : InlineLetter(k) = InlineLetter(j) => k <= j)
      => /\ DictHas(datum_results, InlineLetter(j))
         /\ DictGet(datum_results, InlineLetter(j), "") = ShapeLocation(BareName(j))

\* the line in the plain spelling of its layout
PlainSpelling(l) == [l EXCEPT !.form = IF Short(l) THEN "short" ELSE "std"]

\* what the recognition of line j leaves behind: the datum's feature entry,
\* the shape aspect's map entry, the tolerance's tuple, the dimension's row
Recognised(j) ==
  LET l == PlainSpelling(text[j])
  IN  /\ IsDatumLine(l) => DictHas(datum_letter_to_feature, l.arg)
      /\ IsShapeAspectLine(l) /\ ShapeLetter(l) # "" => DictHas(datum_results, ShapeLetter(l))
      /\ IsTolLine(l) => \E i \in DOMAIN origin.tol : origin.tol[i] = j
      /\ IsSizeLine(l) \/ IsLocationLine(l) => \E i \in DOMAIN origin.dim : origin.dim[i] = j

\* C20: every recognised keyword, DATUM and SHAPE_ASPECT included, follows one
\* matching semantics: a line that is recognised in the plain spelling
\* #id=KEYWORD(...); is recognised as well with blanks around the '=', with
\* the keyword in lower case and without the trailing semicolon
C20_OneMatchingSemantics ==
  pc = "rows" => \A j \in DOMAIN text : Recognised(j)

\* in the plain spelling every well-formed line is recognised
PlainRecognised ==
  pc = "rows" => \A j \in DOMAIN text : text[j].form \in {"std", "short"} => Recognised(j)

\* the step function of the invocation is the sequence of steps of the
\* extractor: a call that runs to its end leaves the rows of Alone
AloneIsTheCall == Done => table_rows = Alone(text)

\* C21: concurrent extractions are independent: however the steps of two
\* invocations on one extractor interleave, each returns the rows it returns
\* when run alone
C21_ConcurrentIndependent ==
  \A th \in Threads : pc[th] = "returned" => returned[th] = Alone(text[th])

\* two invocations of different texts, with different results, have run
\* interleaved and both have returned
C21_Witness ==
  /\ \A th \in Threads : pc[th] = "returned"
  /\ origin.overlap
  /\ text[1] # text[2]
  /\ returned[1] # returned[2]
  /\ returned[1] # <<>> /\ returned[2] # <<>>

Geometric == {i \in Rows : Block(i) = "geometric"}

RowValue(i) == table_rows[i][2]

\* a decimal number: digits with at most one point and at least one digit
ValidDecimal(s) ==
  /\ \A k \in 1..Len(s) : IsNumChar(Char(s, k))
  /\ Cardinality({k \in 1..Len(s) : Char(s, k) = "."}) <= 1
  /\ \E k \in 1..Len(s) : IsDigit(Char(s, k))

\* C22: the Value of every geometric row is a valid decimal number or the
\* literal 'N/A'; a measure text with two decimal points or only a point
\* gives 'N/A'
C22_ValueIsDecimalOrNA ==
  Done => \A i \in Geometric : RowValue(i) = "N/A" \/ ValidDecimal(RowValue(i))

\* the letters the DATUM lines of the file define, and the last line that
\* defines a letter
DefinedLetters == {text[j].arg : j \in {k \in DOMAIN text : IsDatumLine(text[k])}}

LastDatumLine(letter) == text[LastMatch(text, LAMBDA l : IsDatumLine(l) /\ l.arg = letter)]

DatumScanned == pc = "shape" /\ cursor = 1

DatumRowOf(letter) == {i \in Rows : Block(i) = "datum" /\ Source(i) = letter}

\* C23: datum last-write-wins: after the datum scan the letter->raw-name map
\* and the letter->location map hold, for every letter, the values of the
\* last DATUM line that defines it; the result has one datum row per letter,
\* and the datum rows stand in the order of the letters' first occurrences
C23_DatumLastWriteWins ==
  /\ DatumScanned => \A letter \in DefinedLetters :
       /\ DictGet(datum_letter_to_feature, letter, "") = LastDatumLine(letter).name
       /\ DictGet(datum_results, letter, "")
            = DatumLocation(LastDatumLine(letter).name, letter)
  /\ Done /\ IsText(text) =>
       /\ \A letter \in DefinedLetters : Cardinality(DatumRowOf(letter)) = 1
       /\ \A i, j \in Rows :
            /\ Block(i) = "datum" /\ Block(j) = "datum"
            /\ FirstDatumLine(Source(i)) < FirstDatumLine(Source(j))
            => i < j

\* a letter is defined, another letter is defined after it, and the first
\* letter is defined again with another feature: the extraction has returned
\* the first letter's row before the other's, with the later location
C23_Witness ==
  /\ Done
  /\ \E i, j, k \in DOMAIN text :
       /\ i < j /\ j < k
       /\ IsDatumLine(text[i]) /\ IsDatumLine(text[j]) /\ IsDatumLine(text[k])
       /\ text[i].arg = text[k].arg /\ text[i].arg # text[j].arg
       /\ DatumLocation(text[i].name, text[i].arg) # DatumLocation(text[k].name, text[k].arg)
       /\ \E r \in DatumRowOf(text[i].arg) :
            /\ RowLocation(r) = DatumLocation(text[k].name, text[k].arg)
            /\ \A q \in DatumRowOf(text[j].arg) : r < q

\* a feature name with 'planeN' and neither 'boss' nor 'cylinder'
PlaneIndexed(fn) ==
  /\ Contains(Lower(fn), "plane") /\ PlaneNumber(Lower(fn)) >= 0
  /\ ~Contains(Lower(fn), "boss") /\ ~Contains(Lower(fn), "cylinder")

\* C24: for a feature name with 'planeN' the result is the N-th datum letter
\* in sorted order when 1 <= N <= number of datums; for every other N, 0
\* included, it is the first datum whose location mentions 'face' or 'plane'
C24_PlaneIndexMapping ==
  pc = "found" /\ PlaneIndexed(feature_name) =>
    LET N == PlaneNumber(Lower(feature_name))
    IN  IF 1 <= N /\ N <= Len(datum_results)
        THEN returned = SortedKeys(datum_results)[N]
        ELSE FirstKey(datum_results, FaceLike) # ""
               => returned = FirstKey(datum_results, FaceLike)

RowUpperLimit(i) == table_rows[i][7]

RowLowerLimit(i) == table_rows[i][8]

\* C25: in every dimensional row with both limits populated the Upper Limit
\* is numerically greater than or equal to the Lower Limit, whatever the order
\* and the signs of the two measures of the TOLERANCE_VALUE
C25_UpperNotBelowLower ==
  Done => \A i \in Dimensional :
    RowUpperLimit(i) # "" /\ RowLowerLimit(i) # ""
      => ParseFloat(RowUpperLimit(i)).v >= ParseFloat(RowLowerLimit(i)).v

\* C26: a dimensional row reports 'N/A' and empty limits only when no numeric
\* nominal was resolved: when the representation chain of the dimension leads
\* to a numeric POSITIVE_LENGTH_MEASURE, the value 0 included, the row's Value
\* is that number and, with the tolerance link resolved, its limits are
\* computed from it
C26_ZeroNominalReported ==
  Done => \A i \in Dimensional :
    NominalResolved(i).ok
      => /\ RowValue(i) = FloatStr(NominalResolved(i).v)
         /\ LinkResolved(i)
              => /\ RowUpperLimit(i) = Fixed3(NominalResolved(i).v + DeviationsOf(i).upper)
                 /\ RowLowerLimit(i) = Fixed3(NominalResolved(i).v + DeviationsOf(i).lower)

\* line l writes the entity id n, as its own id or as a reference
Writes(l, n) == \E k \in DOMAIN IdsOf(l) : IdsOf(l)[k] = n

\* the file without its DATUM_FEATURE lines
NoFeatures(lines) == SelectSeq(lines, LAMBDA l : l.kind # "DATUM_FEATURE")

\* C27: cross-references are matched on whole entity ids: the nominal of a
\* dimension #k is taken only from a characteristic-representation line that
\* references exactly #k, and tier 3 of the geometric chain uses only the
\* DATUM_FEATURE lines that reference exactly an id of the tolerance line (a
\* tolerance no DATUM_FEATURE line references gets the row it gets without
\* the DATUM_FEATURE lines); a longer id that starts with #k does not count
C27_WholeIdentifiers ==
  Done /\ IsText(text) =>
    /\ \A i \in Dimensional :
         RowValue(i) # "N/A"
           => \E j \in DOMAIN text :
                /\ text[j].kind = "DIMENSIONAL_CHARACTERISTIC_REPRESENTATION"
                /\ Writes(text[j], DimensionOf(i))
    /\ \A i \in Geometric :
         LET l == text[Source(i)]
         IN  (\A j \in DOMAIN text :
                text[j].kind = "DATUM_FEATURE"
                  => \A k \in DOMAIN IdsOf(l) : ~Writes(text[j], IdsOf(l)[k]))
               => table_rows[i] = GeometricRow(ToleranceTuple(l, NoFeatures(text), line_dict,
                                                 datum_results, datum_letter_to_feature, i - 1))

\* C28: a datum letter the classifier has no rule for (a letter outside A-H)
\* does not change the classification: determine_plane_position(name, letter)
\* is determine_plane_position(name, None)
C28_UnruledLetterIsNoLetter ==
  Classified /\ datum_letter # "" /\ Upper(datum_letter) \notin RuledLetters
    => plane_position = determine_plane_position(feature_name, "")

\* the dimension lines for which datum matching raises
Raising ==
  {j \in DOMAIN text :
     \/ /\ IsSizeLine(text[j])
        /\ SizeRow(text[j], text, line_dict, datum_results, datum_letter_to_feature) = IndexError
     \/ /\ IsLocationLine(text[j])
        /\ LocationRow(text[j], text, line_dict, datum_results, datum_letter_to_feature) = IndexError}

ToleranceLines == {j \in DOMAIN text : IsTolLine(text[j])}

SizeLines == {j \in DOMAIN text : IsSizeLine(text[j])}

LocationLines == {j \in DOMAIN text : IsLocationLine(text[j])}

\* C30: row conservation: when the extraction does not fail, the number of
\* result rows is the number of geometric tolerance entities matched plus the
\* number of DIMENSIONAL_SIZE entities matched plus the number of
\* DIMENSIONAL_LOCATION entities matched plus the number of distinct datum
\* letters the DATUM lines define; every matched entity has exactly one row,
\* whatever references are unresolved
C30_RowConservation ==
  Done /\ IsText(text) /\ Raising = {} =>
    /\ Len(table_rows) = Cardinality(ToleranceLines) + Cardinality(SizeLines)
                           + Cardinality(LocationLines) + Cardinality(DefinedLetters)
    /\ \A j \in ToleranceLines :
         Cardinality({i \in Geometric : Source(i) = j}) = 1
    /\ \A j \in SizeLines \cup LocationLines :
         Cardinality({i \in Dimensional : Source(i) = j}) = 1
    /\ \A letter \in DefinedLetters : Cardinality(DatumRowOf(letter)) = 1

\* a result with a geometric row, a row of a DIMENSIONAL_SIZE, a row of a
\* DIMENSIONAL_LOCATION and a datum row, one of the dimensions with its
\* nominal unresolved
C30_Witness ==
  /\ Done /\ IsText(text) /\ Raising = {}
  /\ Geometric # {} /\ SizeRows # {} /\ LocationRows # {}
  /\ \E i \in Rows : Block(i) = "datum"
  /\ \E i \in Dimensional : RowValue(i) = "N/A"

====
